---- MODULE Spec2Model ----
(***************************************************************************)
(* Model of the street-lamp resolution pipeline of the TSB lamp search     *)
(* service: the retried transport (ArcGISQueryService.executeWithRetry),   *)
(* pagination (ArcGISQueryService.queryAll), schema discovery              *)
(* (FieldDiscoveryService.discoverFields), the query cascade               *)
(* (LampSearchService.searchLamps) and its transformation of features to   *)
(* lamps, the street gazetteer (BratislavaStreetsService) and the incident *)
(* report (ReportingService.processLampReport).                            *)
(*                                                                         *)
(* Each component has its own specification over its own variables; the    *)
(* variables of the other components stay at their initial values.         *)
(***************************************************************************)
EXTENDS Integers, Sequences, FiniteSets, TLC

VARIABLES
    \* ---- ArcGISQueryService.executeWithRetry (one call) ----
    rPc,          \* "loop" | "request" | "returned" | "thrown"
    attempt,      \* the for-loop counter
    lastError,    \* the local lastError (NoError = undefined)
    rSleeps,      \* history: the delays slept, in order
    rRequests,    \* history: number of axios.get calls issued
    rErrs,        \* history: the error of every failed attempt, in order
    rOutcome,     \* what the call returned or threw (None while running)
    \* ---- ArcGISQueryService.queryAll (one call) ----
    qPc,          \* "loop" (a page fetch is awaited) | "done" | "failed"
    allFeatures,  \* the accumulated features, as the sequence of page chunks pushed
    offset,       \* the local offset
    hasMore,      \* the local hasMore
    qFetched,     \* history: every page fetch, [offset, n, exceeded], in order
    qResult,      \* what queryAll returned (None while running or when it threw)
    \* ---- FieldDiscoveryService.discoverFields, startServer ----
    cachedDiscovery, \* per FieldDiscoveryService instance: the cached schema or Null
    clock,        \* Date.now(), in ms
    ticks,        \* number of clock advances so far
    dCalls,       \* per call slot: the discoverFields call in flight, if any
    serverState,  \* startServer: "starting" | "discovering" | "listening" | "exited"
    lastReturn,   \* history: the latest completed discoverFields call
    \* ---- LampSearchService.searchLamps (one request), StreetMatcherService ----
    sPc,          \* "idle" | "spatial" | "attr" | "exact" | "sample" | "ai" | "done"
    sReq,         \* the request and what searchLamps derived from it at entry
    sCtx,         \* locals of the function awaiting a remote answer
    features,     \* searchLamps: features
    suggestedStreets, \* searchLamps: suggestedStreets
    streetCache,  \* StreetMatcherService.streetCache
    apiKey,       \* whether process.env.OPENAI_API_KEY is set while the request runs
    sLog,         \* history: the remote calls of this request, in issue order
    sSaw,         \* history: the kinds of remote failure met by this request
    sResult,      \* what searchLamps returned or threw (None while running)
    \* ---- BratislavaStreetsService.findBestMatch ----
    gQuery,       \* the latest call: its input and the list getAllStreets gave it
    gOut,         \* what that call returned
    nName,        \* the latest name given to normalizeStreetName
    nOut,         \* that name normalized once, and the result normalized again
    \* ---- BratislavaStreetsService.getAllStreets, TSBTestController ----
    streetsCache,   \* streetsCache of the controller's long-lived service
    cacheTimestamp, \* cacheTimestamp of that service
    gClock,       \* Date.now(), in ms
    gTicks,       \* number of clock advances so far
    gReqs,        \* per request slot: where testTSBProcessing stands
    gReturn,      \* history: the latest completed getAllStreets call
    \* ---- ReportingService.processLampReport (one report) ----
    pPc,          \* "idle" | "analyzing" | "searching" | "geocoding" | "done"
    locationAnalysis, \* what analyzeCitizenDescription returned
    streetLamps,  \* streetLamps.lamps, what searchLamps gave
    candidates,   \* identifyLikelyLamps: candidates
    pComponent,   \* index of the address component being geocoded
    pReport,      \* the report returned, or the failure raised (None while running)
    \* ---- LampSearchService.transformFeaturesToLamps ----
    tFeatures,    \* the features of the latest transformation (None before it)
    tLamps,       \* the lamps one request made of them
    tLampsAgain,  \* the lamps another request made of the same features
    \* ---- FieldDiscoveryService.identifyStreetFields / identifyLampIdFields ----
    fFields,      \* the metadata field list last examined (None before it)
    fSchema       \* the two name lists identified in it

retryVars == <<rPc, attempt, lastError, rSleeps, rRequests, rErrs, rOutcome>>
pageVars == <<qPc, allFeatures, offset, hasMore, qFetched, qResult>>

discVars == <<cachedDiscovery, clock, ticks, dCalls, serverState, lastReturn>>

searchVars == <<sPc, sReq, sCtx, features, suggestedStreets, streetCache, apiKey,
                sLog, sSaw, sResult>>

gazVars == <<gQuery, gOut, nName, nOut>>

streetsVars == <<streetsCache, cacheTimestamp, gClock, gTicks, gReqs, gReturn>>

reportVars == <<pPc, locationAnalysis, streetLamps, candidates, pComponent, pReport>>

transformVars == <<tFeatures, tLamps, tLampsAgain>>

fieldsVars == <<fFields, fSchema>>

vars == <<retryVars, pageVars, discVars, searchVars, gazVars, streetsVars,
          reportVars, transformVars, fieldsVars>>

\* what an action of one component leaves alone
notRetry == <<pageVars, discVars, searchVars, gazVars, streetsVars,
              reportVars, transformVars, fieldsVars>>
notPage == <<retryVars, discVars, searchVars, gazVars, streetsVars,
             reportVars, transformVars, fieldsVars>>
notDisc == <<retryVars, pageVars, searchVars, gazVars, streetsVars,
             reportVars, transformVars, fieldsVars>>
notSearch == <<retryVars, pageVars, discVars, gazVars, streetsVars,
               reportVars, transformVars, fieldsVars>>
notGaz == <<retryVars, pageVars, discVars, searchVars, streetsVars,
            reportVars, transformVars, fieldsVars>>
notStreets == <<retryVars, pageVars, discVars, searchVars, gazVars,
                reportVars, transformVars, fieldsVars>>
notReport == <<retryVars, pageVars, discVars, searchVars, gazVars,
               streetsVars, transformVars, fieldsVars>>
notTransform == <<retryVars, pageVars, discVars, searchVars, gazVars,
                  streetsVars, reportVars, fieldsVars>>
notFields == <<retryVars, pageVars, discVars, searchVars, gazVars,
               streetsVars, reportVars, transformVars>>

None == [kind |-> "none"]
Null == [kind |-> "null"]
Undefined == [kind |-> "undefined"]
NoError == [kind |-> "undefined"]

(***************************************************************************)
(* Configuration (config.arcgis)                                           *)
(***************************************************************************)
maxRetries == 2
retryDelayMs == 1000
\* config.search
maxRecordCount == 1000
\* config.cache
fieldDiscoveryTtlSeconds == 600

(***************************************************************************)
(* executeWithRetry                                                        *)
(***************************************************************************)
\* What one axios.get can do: answer, or fail with an axios error carrying an
\* HTTP status (0 = no response: timeout, connection refused), or fail with an
\* error that is not an axios error.  "at" is the attempt that produced the
\* error, which gives every error object its identity.
ErrorKinds == {[axios |-> TRUE, status |-> 400], [axios |-> TRUE, status |-> 500],
               [axios |-> TRUE, status |-> 0], [axios |-> FALSE, status |-> 0]}

MkError(k, at) == [kind |-> "error", axios |-> k.axios, status |-> k.status, at |-> at]

IsBadRequest(e) == e.kind = "error" /\ e.axios /\ e.status = 400

\* (variant: exponent off by one)
BackoffDelayOffByOne(a) == retryDelayMs * (2 ^ a)

\* delay = retryDelayMs * 2^(attempt-1)
BackoffDelay(a) == retryDelayMs * (2 ^ (a - 1))

RetryStart ==
    /\ rPc = "loop"
    /\ attempt = 0
    /\ lastError = NoError
    /\ rSleeps = <<>>
    /\ rRequests = 0
    /\ rErrs = <<>>
    /\ rOutcome = None

\* for (attempt...; attempt <= retries; ...): loop test, then the sleep that opens
\* the try block when attempt > 0.  After the loop: throw lastError || new Error.
RetryLoop ==
    /\ rPc = "loop"
    /\ IF attempt <= maxRetries
       THEN /\ rPc' = "request"
            /\ rSleeps' = IF attempt > 0 THEN Append(rSleeps, BackoffDelay(attempt))
                                         ELSE rSleeps
            /\ UNCHANGED rOutcome
       ELSE /\ rPc' = "thrown"
            /\ rOutcome' = IF lastError = NoError
                           THEN [kind |-> "error", axios |-> FALSE, status |-> 0, at |-> -1]
                           ELSE lastError
            /\ UNCHANGED rSleeps
    /\ UNCHANGED <<attempt, lastError, rRequests, rErrs>>
    /\ UNCHANGED notRetry

\* axios.get answered: return response.data
RetrySuccess ==
    /\ rPc = "request"
    /\ rRequests' = rRequests + 1
    /\ rPc' = "returned"
    /\ rOutcome' = [kind |-> "data", at |-> attempt]
    /\ UNCHANGED <<attempt, lastError, rSleeps, rErrs>>
    /\ UNCHANGED notRetry

\* (variant: the bad-request test is missing, every error is retried)
CatchErrorRetryAll(e) ==
    /\ lastError' = e
    /\ rErrs' = Append(rErrs, e)
    /\ rPc' = "loop"
    /\ attempt' = attempt + 1
    /\ UNCHANGED rOutcome

\* (variant: lastError keeps the first error instead of the latest)
CatchErrorKeepFirst(e) ==
    /\ lastError' = IF lastError = NoError THEN e ELSE lastError
    /\ rErrs' = Append(rErrs, e)
    /\ IF e.axios /\ e.status = 400
       THEN /\ rPc' = "thrown"
            /\ rOutcome' = e
            /\ UNCHANGED attempt
       ELSE /\ rPc' = "loop"
            /\ attempt' = attempt + 1
            /\ UNCHANGED rOutcome

\* the catch block
CatchError(e) ==
    /\ lastError' = e
    /\ rErrs' = Append(rErrs, e)
    /\ IF e.axios /\ e.status = 400
       THEN /\ rPc' = "thrown"
            /\ rOutcome' = e
            /\ UNCHANGED attempt
       ELSE /\ rPc' = "loop"
            /\ attempt' = attempt + 1
            /\ UNCHANGED rOutcome

\* axios.get failed
RetryFailure ==
    /\ rPc = "request"
    /\ rRequests' = rRequests + 1
    /\ \E k \in ErrorKinds : CatchError(MkError(k, attempt))
    /\ UNCHANGED rSleeps
    /\ UNCHANGED notRetry

\* the caller issues the next query: a fresh call
RetryCall ==
    /\ rPc \in {"returned", "thrown"}
    /\ rPc' = "loop"
    /\ attempt' = 0
    /\ lastError' = NoError
    /\ rSleeps' = <<>>
    /\ rRequests' = 0
    /\ rErrs' = <<>>
    /\ rOutcome' = None
    /\ UNCHANGED notRetry

RetryNext == RetryLoop \/ RetrySuccess \/ RetryFailure \/ RetryCall


(***************************************************************************)
(* Properties of executeWithRetry                                          *)
(***************************************************************************)
\* C4: at most 3 attempts; the first successful response is returned with no
\* further attempt; no sleep precedes the first attempt and exactly one sleep
\* precedes each retry; the sleep before retry k lasts 1000 * 2^(k-1) ms; two
\* failures followed by a success return on the 3rd attempt after sleeping
\* 1000 ms and then 2000 ms.
C4_RetryBackoff ==
    /\ rRequests <= 3
    /\ (rRequests = 0 /\ rPc # "request") => rSleeps = <<>>
    /\ rPc = "request" => Len(rSleeps) = rRequests
    /\ rPc # "request" => (rRequests = 0 \/ Len(rSleeps) = rRequests - 1)
    /\ \A k \in 1..Len(rSleeps) : rSleeps[k] = 1000 * (2 ^ (k - 1))
    /\ rPc = "returned" =>
          /\ rOutcome.kind = "data"
          /\ rRequests = rOutcome.at + 1
          /\ Len(rErrs) = rOutcome.at
    /\ (rPc = "returned" /\ Len(rErrs) = 2) =>
          /\ rRequests = 3
          /\ rSleeps = <<1000, 2000>>
          /\ rSleeps[1] < rSleeps[2]

C4_Witness == rPc = "returned" /\ Len(rErrs) = 2 /\ rRequests = 3

\* C5: an HTTP 400 answer ends the call at once: it is the last attempt made,
\* no sleep follows it, and it is the error thrown; on the first attempt that
\* means exactly one request and no sleep at all.
C5_BadRequestNotRetried ==
    \A i \in 1..Len(rErrs) :
        IsBadRequest(rErrs[i]) =>
            /\ i = Len(rErrs)
            /\ rPc = "thrown"
            /\ rOutcome = rErrs[i]
            /\ rRequests = i
            /\ Len(rSleeps) = i - 1
            /\ (i = 1 => (rRequests = 1 /\ rSleeps = <<>>))

C5_Witness == rPc = "thrown" /\ IsBadRequest(rOutcome) /\ rRequests = 1 /\ rSleeps = <<>>

\* C6: when every attempt fails with an error that is not a bad request, the
\* call throws only after exactly maxRetries + 1 = 3 requests, and what it
\* throws is the error of the 3rd (last) attempt.
C6_TransientExhausts ==
    (rPc = "thrown" /\ \A i \in 1..Len(rErrs) : ~IsBadRequest(rErrs[i])) =>
        /\ rRequests = 3
        /\ Len(rErrs) = 3
        /\ rOutcome = rErrs[3]
        /\ rOutcome.at = 2

C6_Witness ==
    /\ rPc = "thrown"
    /\ Len(rErrs) = 3
    /\ \A i \in 1..3 : ~IsBadRequest(rErrs[i])

(***************************************************************************)
(* queryAll                                                                *)
(***************************************************************************)
\* the literal of the pagination guard: if (allFeatures.length > 5000) break
safetyCeiling == 5000

\* Page lengths a server answers with: empty, short, exactly full, and longer
\* than asked for (a server that ignores resultRecordCount).
PageSizes == {0, maxRecordCount \div 2, maxRecordCount, 2 * maxRecordCount}

\* allFeatures.length, allFeatures being held as the chunks pushed
RECURSIVE TotalLength(_)
TotalLength(chunks) ==
    IF chunks = <<>> THEN 0 ELSE Head(chunks).n + TotalLength(Tail(chunks))

PageInit ==
    /\ qPc = "loop"
    /\ allFeatures = <<>>
    /\ offset = 0
    /\ hasMore = TRUE
    /\ qFetched = <<>>
    /\ qResult = None

\* (variant: the guard against runaway pagination is missing)
QueryAllPageNoCeiling(n, exceeded) ==
    LET page == Len(qFetched) + 1
        pushed == IF n > 0 THEN Append(allFeatures, [page |-> page, n |-> n])
                  ELSE allFeatures
        more == n > 0 /\ (exceeded \/ n = maxRecordCount)
    IN  /\ qPc = "loop"
        /\ hasMore
        /\ qFetched' = Append(qFetched, [offset |-> offset, n |-> n, exceeded |-> exceeded])
        /\ allFeatures' = pushed
        /\ offset' = IF more THEN offset + n ELSE offset
        /\ hasMore' = more
        /\ IF ~more
           THEN qPc' = "done" /\ qResult' = [features |-> pushed]
           ELSE qPc' = "loop" /\ UNCHANGED qResult

\* (variant: an empty page flagged exceededTransferLimit does not end the loop)
QueryAllPageEmptyContinues(n, exceeded) ==
    LET page == Len(qFetched) + 1
        pushed == IF n > 0 THEN Append(allFeatures, [page |-> page, n |-> n])
                  ELSE allFeatures
        more == exceeded \/ n = maxRecordCount
        stop == TotalLength(pushed) > safetyCeiling
    IN  /\ qPc = "loop"
        /\ hasMore
        /\ qFetched' = Append(qFetched, [offset |-> offset, n |-> n, exceeded |-> exceeded])
        /\ allFeatures' = pushed
        /\ offset' = IF more THEN offset + n ELSE offset
        /\ hasMore' = more
        /\ IF stop \/ ~more
           THEN qPc' = "done" /\ qResult' = [features |-> pushed]
           ELSE qPc' = "loop" /\ UNCHANGED qResult

\* (variant: the offset advances by the page size asked for, not by the number
\* of features that arrived)
QueryAllPageFixedStride(n, exceeded) ==
    LET page == Len(qFetched) + 1
        pushed == IF n > 0 THEN Append(allFeatures, [page |-> page, n |-> n])
                  ELSE allFeatures
        more == n > 0 /\ (exceeded \/ n = maxRecordCount)
        stop == TotalLength(pushed) > safetyCeiling
    IN  /\ qPc = "loop"
        /\ hasMore
        /\ qFetched' = Append(qFetched, [offset |-> offset, n |-> n, exceeded |-> exceeded])
        /\ allFeatures' = pushed
        /\ offset' = IF more THEN offset + maxRecordCount ELSE offset
        /\ hasMore' = more
        /\ IF stop \/ ~more
           THEN qPc' = "done" /\ qResult' = [features |-> pushed]
           ELSE qPc' = "loop" /\ UNCHANGED qResult

\* One iteration of while (hasMore): the awaited page arrives and is processed.
\* n is response.features.length (0 also stands for a response without features).
QueryAllPage(n, exceeded) ==
    LET page == Len(qFetched) + 1
        pushed == IF n > 0 THEN Append(allFeatures, [page |-> page, n |-> n])
                  ELSE allFeatures
        more == n > 0 /\ (exceeded \/ n = maxRecordCount)
        stop == TotalLength(pushed) > safetyCeiling
    IN  /\ qPc = "loop"
        /\ hasMore
        /\ qFetched' = Append(qFetched, [offset |-> offset, n |-> n, exceeded |-> exceeded])
        /\ allFeatures' = pushed
        /\ offset' = IF more THEN offset + n ELSE offset
        /\ hasMore' = more
        /\ IF stop \/ ~more
           THEN qPc' = "done" /\ qResult' = [features |-> pushed]
           ELSE qPc' = "loop" /\ UNCHANGED qResult

QueryAllFetch ==
    /\ \E n \in PageSizes, exceeded \in BOOLEAN : QueryAllPage(n, exceeded)
    /\ UNCHANGED notPage

\* queryFunction(offset) throws (executeWithRetry gave up): queryAll has no
\* try/catch, the error propagates and the accumulated features are lost.
QueryAllFetchFails ==
    /\ qPc = "loop"
    /\ qFetched' = Append(qFetched, [offset |-> offset, n |-> -1, exceeded |-> FALSE])
    /\ qPc' = "failed"
    /\ UNCHANGED <<allFeatures, offset, hasMore, qResult>>
    /\ UNCHANGED notPage

\* the next queryAll call
QueryAllCall ==
    /\ qPc \in {"done", "failed"}
    /\ qPc' = "loop"
    /\ allFeatures' = <<>>
    /\ offset' = 0
    /\ hasMore' = TRUE
    /\ qFetched' = <<>>
    /\ qResult' = None
    /\ UNCHANGED notPage

PageNext == QueryAllFetch \/ QueryAllFetchFails \/ QueryAllCall

(***************************************************************************)
(* Properties of queryAll                                                  *)
(***************************************************************************)
\* C7 as stated: once 5000 features have been accumulated no page fetch is
\* awaited any more.
C7_StopsAtCeiling == TotalLength(allFeatures) >= 5000 => qPc # "loop"

\* C7 amended: once MORE than 5000 features have been accumulated no page
\* fetch is awaited any more, even though the last page announced more data
\* (hasMore is still true); with exactly 5000 the loop goes on.
C7_StopsAboveCeiling ==
    /\ TotalLength(allFeatures) > 5000 => (qPc = "done" /\ qResult = [features |-> allFeatures])
    /\ qPc = "loop" => (hasMore /\ TotalLength(allFeatures) <= 5000)

C7_Witness ==
    /\ qPc = "done"
    /\ TotalLength(allFeatures) > 5000
    /\ hasMore
    /\ qFetched[Len(qFetched)].exceeded

\* C8: whatever pages the server answers with, queryAll ends after finitely
\* many page fetches: every fetch but the last added at least one feature,
\* so there are at most 5001 of them, and an awaited fetch always leads to the
\* end of the call; a call that passed the ceiling returned what it had
\* accumulated, it did not fail.
C8_Terminates ==
    /\ [](Len(qFetched) <= TotalLength(allFeatures) + 1)
    /\ [](Len(qFetched) <= 5001)
    /\ [](TotalLength(allFeatures) > 5000 =>
            (qPc = "done" /\ qResult = [features |-> allFeatures]))
    /\ (qPc = "loop") ~> (qPc \in {"done", "failed"})

C8_Witness ==
    /\ qPc = "done"
    /\ TotalLength(qResult.features) > 5000
    /\ \A i \in 1..Len(qFetched) : qFetched[i].exceeded

\* the pages fetched so far that held features, as the chunks they add
NonEmptyPages ==
    LET held == {k \in DOMAIN qFetched : qFetched[k].n > 0}
        Position(k) == Cardinality({j \in held : j <= k})
    IN  [i \in 1..Cardinality(held) |->
            LET k == CHOOSE k \in held : Position(k) = i
            IN  [page |-> k, n |-> qFetched[k].n]]

\* C32: each page is requested with an offset equal to the number of features
\* all earlier pages of the call returned, so the offsets strictly increase; a
\* further page is fetched only after a non-empty page that was flagged
\* exceededTransferLimit or held exactly maxRecordCount features; the call
\* returns the fetched pages concatenated in fetch order.
C32_OffsetsAndConcatenation ==
    /\ \A k \in DOMAIN qFetched :
          /\ qFetched[k].offset = TotalLength(SubSeq(qFetched, 1, k - 1))
          /\ k > 1 =>
                /\ qFetched[k].offset > qFetched[k - 1].offset
                /\ qFetched[k - 1].n > 0
                /\ qFetched[k - 1].exceeded \/ qFetched[k - 1].n = maxRecordCount
    /\ qPc = "done" => qResult = [features |-> NonEmptyPages]

\* a call that fetched a short flagged page, a full page and a short last one
C32_Witness ==
    /\ qPc = "done"
    /\ Len(qFetched) = 3
    /\ qFetched[1].n < maxRecordCount
    /\ qFetched[2].n = maxRecordCount
    /\ ~qFetched[2].exceeded
    /\ qFetched[3].offset = qFetched[1].n + maxRecordCount
    /\ Len(qResult.features) = 3

(***************************************************************************)
(* Strings are sequences of characters, so that toLowerCase and includes   *)
(* are computed as the code computes them.                                 *)
(***************************************************************************)
ToLowerChar(c) ==
    CASE c = "A" -> "a" [] c = "B" -> "b" [] c = "C" -> "c" [] c = "D" -> "d"
      [] c = "E" -> "e" [] c = "F" -> "f" [] c = "G" -> "g" [] c = "H" -> "h"
      [] c = "I" -> "i" [] c = "J" -> "j" [] c = "K" -> "k" [] c = "L" -> "l"
      [] c = "M" -> "m" [] c = "N" -> "n" [] c = "O" -> "o" [] c = "P" -> "p"
      [] c = "Q" -> "q" [] c = "R" -> "r" [] c = "S" -> "s" [] c = "T" -> "t"
      [] c = "U" -> "u" [] c = "V" -> "v" [] c = "W" -> "w" [] c = "X" -> "x"
      [] c = "Y" -> "y" [] c = "Z" -> "z" [] OTHER -> c

\* String.prototype.toLowerCase
ToLowerCase(str) == [i \in 1..Len(str) |-> ToLowerChar(str[i])]

\* String.prototype.includes
Includes(str, pat) ==
    \E i \in 0..(Len(str) - Len(pat)) : SubSeq(str, i + 1, i + Len(pat)) = pat

(***************************************************************************)
(* FieldDiscoveryService                                                   *)
(***************************************************************************)
streetFieldPatterns ==
    << <<"u", "l", "i", "c", "a">>,
       <<"s", "t", "r", "e", "e", "t">>,
       <<"n", "a", "z", "o", "v", "_", "u", "l", "i", "c", "e">>,
       <<"n", "a", "z", "o", "v">>,
       <<"c", "e", "s", "t", "a">>,
       <<"n", "a", "m", "e">> >>

\* "l_acute" stands for the letter l with acute of the pattern 'stĺp'
lampIdFieldPatterns ==
    << <<"l", "a", "m", "p">>,
       <<"s", "t", "l", "p">>,
       <<"s", "t", "l_acute", "p">>,
       <<"c", "i", "s", "l", "o">>,
       <<"n", "u", "m", "b", "e", "r">>,
       <<"i", "d">>,
       <<"s", "v", "e", "t", "l", "o">>,
       <<"s", "v", "e", "t", "e", "l", "n", "e">> >>

\* field.name / field.alias contains one of the patterns (case-insensitive)
MatchesPattern(field, patterns) ==
    \E i \in 1..Len(patterns) :
        \/ Includes(ToLowerCase(field.name), patterns[i])
        \/ Includes(ToLowerCase(field.alias), patterns[i])

\* identifyStreetFields: the loop over the metadata fields, in metadata order
RECURSIVE StreetFieldsOf(_)
StreetFieldsOf(fields) ==
    IF fields = <<>> THEN <<>>
    ELSE LET field == Head(fields)
             rest == StreetFieldsOf(Tail(fields))
         IN  IF \E i \in 1..Len(streetFieldPatterns) :
                    /\ \/ Includes(ToLowerCase(field.name), streetFieldPatterns[i])
                       \/ Includes(ToLowerCase(field.alias), streetFieldPatterns[i])
                    /\ field.type = "esriFieldTypeString"
             THEN <<field.name>> \o rest
             ELSE rest

\* (variant: no fallback to 'ulica')
identifyStreetFieldsNoFallback(fields) == StreetFieldsOf(fields)

identifyStreetFields(fields) ==
    LET streetFields == StreetFieldsOf(fields)
    IN  IF Len(streetFields) > 0 THEN streetFields ELSE << <<"u", "l", "i", "c", "a">> >>

\* identifyLampIdFields: the loop over the metadata fields, in metadata order
RECURSIVE LampIdFieldsOf(_)
LampIdFieldsOf(fields) ==
    IF fields = <<>> THEN <<>>
    ELSE LET field == Head(fields)
             fieldNameLower == ToLowerCase(field.name)
             rest == LampIdFieldsOf(Tail(fields))
         IN  IF fieldNameLower = <<"o", "b", "j", "e", "c", "t", "i", "d">>
                \/ fieldNameLower = <<"o", "i", "d">>
             THEN rest
             ELSE IF MatchesPattern(field, lampIdFieldPatterns)
                  THEN <<field.name>> \o rest
                  ELSE rest

identifyLampIdFields(fields) ==
    LET lampIdFields == LampIdFieldsOf(fields)
    IN  IF Len(lampIdFields) = 0
        THEN << <<"O", "B", "J", "E", "C", "T", "I", "D">> >>
        ELSE lampIdFields

\* Metadata fields a layer may have: an object id, a street name, a field whose
\* name matches a street pattern but is not a string, a geometry, a lamp number,
\* a field that matches only through its alias, a string field matching only the
\* last street pattern, an object id whose alias matches a lamp pattern, a
\* numbered copy of the object id, and a field matching two street patterns.
FieldUniverse ==
    { [name |-> <<"O", "B", "J", "E", "C", "T", "I", "D">>,
       alias |-> <<"O", "I", "D">>, type |-> "esriFieldTypeOID"],
      [name |-> <<"u", "l", "i", "c", "a">>,
       alias |-> <<>>, type |-> "esriFieldTypeString"],
      [name |-> <<"c", "e", "s", "t", "a">>,
       alias |-> <<"C", "e", "s", "t", "a">>, type |-> "esriFieldTypeInteger"],
      [name |-> <<"S", "h", "a", "p", "e">>,
       alias |-> <<"S", "h", "a", "p", "e">>, type |-> "esriFieldTypeGeometry"],
      [name |-> <<"c", "i", "s", "l", "o", "_", "s", "t", "l", "p">>,
       alias |-> <<>>, type |-> "esriFieldTypeString"],
      [name |-> <<"f", "1">>,
       alias |-> <<"S", "t", "r", "e", "e", "t">>, type |-> "esriFieldTypeString"],
      [name |-> <<"N", "a", "m", "e">>,
       alias |-> <<"N", "a", "m", "e">>, type |-> "esriFieldTypeString"],
      [name |-> <<"O", "i", "d">>,
       alias |-> <<"L", "a", "m", "p", " ", "i", "d">>, type |-> "esriFieldTypeOID"],
      [name |-> <<"o", "b", "j", "e", "c", "t", "i", "d", "_", "1">>,
       alias |-> <<>>, type |-> "esriFieldTypeInteger"],
      [name |-> <<"n", "a", "z", "o", "v", "_", "u", "l", "i", "c", "e">>,
       alias |-> <<>>, type |-> "esriFieldTypeString"] }

MaxFields == 2

\* every metadata field list of at most MaxFields fields
MetaLists == UNION {[1..n -> FieldUniverse] : n \in 0..MaxFields}

FieldsInit ==
    /\ fFields = None
    /\ fSchema = None

\* lines 63-64 of discoverFields on the field list of a metadata answer
IdentifyFields ==
    /\ fFields = None
    /\ \E fields \in MetaLists :
          /\ fFields' = [fields |-> fields]
          /\ fSchema' = [streetFields |-> identifyStreetFields(fields),
                         lampIdFields |-> identifyLampIdFields(fields)]
    /\ UNCHANGED notFields

\* the lists have been put into the schema
FieldsConsumed ==
    /\ fFields # None
    /\ fFields' = None
    /\ fSchema' = None
    /\ UNCHANGED notFields

FieldsNext == IdentifyFields \/ FieldsConsumed

\* Layer metadata the remote service may answer with (response.data.fields || []).
MetaTypical ==
    << [name |-> <<"O", "B", "J", "E", "C", "T", "I", "D">>,
        alias |-> <<"O", "B", "J", "E", "C", "T", "I", "D">>,
        type |-> "esriFieldTypeOID"],
       [name |-> <<"u", "l", "i", "c", "a">>,
        alias |-> <<"U", "l", "i", "c", "a">>,
        type |-> "esriFieldTypeString"],
       [name |-> <<"c", "i", "s", "l", "o", "_", "s", "t", "l", "p">>,
        alias |-> <<"C", "i", "s", "l", "o", " ", "s", "t", "l", "p", "u">>,
        type |-> "esriFieldTypeString"] >>

MetadataAnswers == {MetaTypical, <<>>}

\* identifyStreetFields / identifyLampIdFields of each metadata answer,
\* evaluated once
IdentifiedFields ==
    [fields \in MetadataAnswers |->
        [streetFields |-> identifyStreetFields(fields),
         lampIdFields |-> identifyLampIdFields(fields)]]

\* the schema built from a metadata answer
DiscoveredSchema(fields, now) ==
    [kind |-> "schema",
     streetFields |-> IdentifiedFields[fields].streetFields,
     lampIdFields |-> IdentifiedFields[fields].lampIdFields,
     allFields |-> fields,
     timestamp |-> now]

\* the hardcoded schema of the catch block
DefaultSchema(now) ==
    [kind |-> "schema",
     streetFields |-> << <<"u", "l", "i", "c", "a">>,
                         <<"n", "a", "z", "o", "v", "_", "u", "l", "i", "c", "e">>,
                         <<"s", "t", "r", "e", "e", "t", "_", "n", "a", "m", "e">> >>,
     lampIdFields |-> << <<"c", "i", "s", "l", "o", "_", "s", "t", "l", "p">>,
                         <<"l", "a", "m", "p", "_", "i", "d">>,
                         <<"o", "b", "j", "e", "c", "t", "i", "d">> >>,
     allFields |-> <<>>,
     timestamp |-> now]

\* The two FieldDiscoveryService instances of the process: the one startServer
\* constructs and the one createApiRouter constructs.
Instances == {"server", "router"}

\* Call slot 0 is startServer's discoverFields(true); slots 1..NumRequests are
\* calls on the router's instance.
NumRequests == 2
Calls == 0..NumRequests
InstanceOf(c) == IF c = 0 THEN "server" ELSE "router"

\* Clock advances: 1 ms, and one ms short of the TTL.
MaxTicks == 2
TickSteps == {1, fieldDiscoveryTtlSeconds * 1000 - 1}

Idle == [pc |-> "idle"]

DiscInit ==
    /\ cachedDiscovery = [i \in Instances |-> Null]
    /\ clock = 0
    /\ ticks = 0
    /\ dCalls = [c \in Calls |-> Idle]
    /\ serverState = "starting"
    /\ lastReturn = None

\* (variant: forceRefresh is not consulted)
UseCachedIgnoringForce(forceRefresh, cached, now) ==
    /\ cached # Null
    /\ (now - cached.timestamp) < fieldDiscoveryTtlSeconds * 1000

\* if (!forceRefresh && this.cachedDiscovery && (now - timestamp) < ttl * 1000)
UseCached(forceRefresh, cached, now) ==
    /\ ~forceRefresh
    /\ cached # Null
    /\ (now - cached.timestamp) < fieldDiscoveryTtlSeconds * 1000

\* discoverFields up to its first suspension point: const now = Date.now(); the
\* cache test; then either return the cached schema or await axios.get.
DiscoverBegin(c, forceRefresh) ==
    LET cached == cachedDiscovery[InstanceOf(c)]
    IN  /\ dCalls[c].pc = "idle"
        /\ IF UseCached(forceRefresh, cached, clock)
           THEN /\ lastReturn' = [forceRefresh |-> forceRefresh, fetched |-> FALSE,
                                  failed |-> FALSE, raised |-> FALSE, result |-> cached]
                /\ UNCHANGED dCalls
           ELSE /\ dCalls' = [dCalls EXCEPT ![c] =
                                [pc |-> "fetching", forceRefresh |-> forceRefresh,
                                 now |-> clock]]
                /\ UNCHANGED lastReturn
        /\ UNCHANGED <<cachedDiscovery, clock, ticks>>

\* startServer: new FieldDiscoveryService(); await fieldDiscovery.discoverFields(true)
StartServer ==
    /\ serverState = "starting"
    /\ DiscoverBegin(0, TRUE)
    /\ serverState' = "discovering"
    /\ UNCHANGED notDisc

\* a discoverFields call on the router's instance (searchLamps passes no
\* argument, i.e. forceRefresh = false); requests are served once listening
DiscoverCall ==
    /\ serverState = "listening"
    /\ \E c \in 1..NumRequests, forceRefresh \in BOOLEAN : DiscoverBegin(c, forceRefresh)
    /\ UNCHANGED serverState
    /\ UNCHANGED notDisc

\* the try block after the await: the schema is built, stored and returned
DiscoverTry(c, fields) ==
    LET call == dCalls[c]
        schema == DiscoveredSchema(fields, call.now)
    IN  /\ cachedDiscovery' = [cachedDiscovery EXCEPT ![InstanceOf(c)] = schema]
        /\ lastReturn' = [forceRefresh |-> call.forceRefresh, fetched |-> TRUE,
                          failed |-> FALSE, raised |-> FALSE, result |-> schema]

\* (variant: the catch block rethrows when there is no cached schema)
DiscoverCatchRethrows(c) ==
    LET call == dCalls[c]
        cached == cachedDiscovery[InstanceOf(c)]
    IN  /\ lastReturn' = [forceRefresh |-> call.forceRefresh, fetched |-> TRUE,
                          failed |-> TRUE, raised |-> cached = Null,
                          result |-> IF cached # Null THEN cached ELSE None]
        /\ UNCHANGED cachedDiscovery

\* (variant: the hardcoded schema is stored when there is no cached one)
DiscoverCatchStoresDefault(c) ==
    LET call == dCalls[c]
        cached == cachedDiscovery[InstanceOf(c)]
        schema == IF cached # Null THEN cached ELSE DefaultSchema(call.now)
    IN  /\ lastReturn' = [forceRefresh |-> call.forceRefresh, fetched |-> TRUE,
                          failed |-> TRUE, raised |-> FALSE, result |-> schema]
        /\ cachedDiscovery' = [cachedDiscovery EXCEPT ![InstanceOf(c)] = schema]

\* the catch block: the stale cache if there is one, else the hardcoded schema
DiscoverCatch(c) ==
    LET call == dCalls[c]
        cached == cachedDiscovery[InstanceOf(c)]
    IN  /\ lastReturn' = [forceRefresh |-> call.forceRefresh, fetched |-> TRUE,
                          failed |-> TRUE, raised |-> FALSE,
                          result |-> IF cached # Null THEN cached
                                     ELSE DefaultSchema(call.now)]
        /\ UNCHANGED cachedDiscovery

\* startServer after its await: app.listen, or the catch block's process.exit(1)
\* when discoverFields threw
ServerAfterDiscovery(c) ==
    IF c = 0
    THEN serverState' = IF lastReturn'.raised THEN "exited" ELSE "listening"
    ELSE UNCHANGED serverState

\* the metadata request of a call in flight is answered
FetchSucceeds ==
    /\ \E c \in Calls, fields \in MetadataAnswers :
          /\ dCalls[c].pc = "fetching"
          /\ DiscoverTry(c, fields)
          /\ dCalls' = [dCalls EXCEPT ![c] = Idle]
          /\ ServerAfterDiscovery(c)
    /\ UNCHANGED <<clock, ticks>>
    /\ UNCHANGED notDisc

\* the metadata request of a call in flight fails
FetchFails ==
    /\ \E c \in Calls :
          /\ dCalls[c].pc = "fetching"
          /\ DiscoverCatch(c)
          /\ dCalls' = [dCalls EXCEPT ![c] = Idle]
          /\ ServerAfterDiscovery(c)
    /\ UNCHANGED <<clock, ticks>>
    /\ UNCHANGED notDisc

\* time passes
Tick ==
    /\ ticks < MaxTicks
    /\ \E d \in TickSteps : clock' = clock + d
    /\ ticks' = ticks + 1
    /\ UNCHANGED <<cachedDiscovery, dCalls, serverState, lastReturn>>
    /\ UNCHANGED notDisc

DiscNext == StartServer \/ DiscoverCall \/ FetchSucceeds \/ FetchFails \/ Tick

(***************************************************************************)
(* Text helpers of the search: utils/diacritics and the string methods     *)
(* tryExactMatches uses                                                    *)
(***************************************************************************)
ToUpperChar(c) ==
    CASE c = "a" -> "A" [] c = "b" -> "B" [] c = "c" -> "C" [] c = "d" -> "D"
      [] c = "e" -> "E" [] c = "f" -> "F" [] c = "g" -> "G" [] c = "h" -> "H"
      [] c = "i" -> "I" [] c = "j" -> "J" [] c = "k" -> "K" [] c = "l" -> "L"
      [] c = "m" -> "M" [] c = "n" -> "N" [] c = "o" -> "O" [] c = "p" -> "P"
      [] c = "q" -> "Q" [] c = "r" -> "R" [] c = "s" -> "S" [] c = "t" -> "T"
      [] c = "u" -> "U" [] c = "v" -> "V" [] c = "w" -> "W" [] c = "x" -> "X"
      [] c = "y" -> "Y" [] c = "z" -> "Z" [] OTHER -> c

\* String.prototype.toUpperCase
ToUpperCase(str) == [i \in 1..Len(str) |-> ToUpperChar(str[i])]

\* Accented letters are written "<letter>_<accent>".
RemoveDiacriticsChar(c) ==
    CASE c = "a_acute" -> "a" [] c = "e_acute" -> "e" [] c = "i_acute" -> "i"
      [] c = "o_acute" -> "o" [] c = "u_acute" -> "u" [] c = "y_acute" -> "y"
      [] c = "c_caron" -> "c" [] c = "s_caron" -> "s" [] c = "z_caron" -> "z"
      [] c = "l_acute" -> "l" [] c = "o_circumflex" -> "o" [] OTHER -> c

\* removeDiacritics (utils/diacritics, whose source is not in the repository
\* snapshot; behaviour as the specification describes the Text Normalizer):
\* every accented letter becomes its base letter
removeDiacritics(str) == [i \in 1..Len(str) |-> RemoveDiacriticsChar(str[i])]

\* normalizeStreet (utils/diacritics, as above): surrounding whitespace dropped, inner runs of whitespace
\* collapsed to one space; letters and diacritics are kept
RECURSIVE CollapseSpaces(_, _)
CollapseSpaces(str, afterSpace) ==
    IF str = <<>> THEN <<>>
    ELSE IF Head(str) = " "
         THEN (IF afterSpace THEN <<>> ELSE <<" ">>) \o CollapseSpaces(Tail(str), TRUE)
         ELSE <<Head(str)>> \o CollapseSpaces(Tail(str), FALSE)

TrimEnd(str) ==
    IF str # <<>> /\ str[Len(str)] = " " THEN SubSeq(str, 1, Len(str) - 1) ELSE str

normalizeStreet(str) == TrimEnd(CollapseSpaces(str, TRUE))

\* String.prototype.indexOf, 1-based; 0 when absent
IndexOf(str, pat) ==
    IF Includes(str, pat)
    THEN 1 + CHOOSE i \in 0..(Len(str) - Len(pat)) :
                 /\ SubSeq(str, i + 1, i + Len(pat)) = pat
                 /\ \A j \in 0..(i - 1) : SubSeq(str, j + 1, j + Len(pat)) # pat
    ELSE 0

\* str.replace(pat, ''): the first occurrence removed
RemoveFirst(str, pat) ==
    LET i == IndexOf(str, pat)
    IN  IF i = 0 THEN str
        ELSE SubSeq(str, 1, i - 1) \o SubSeq(str, i + Len(pat), Len(str))

\* str.replace(/^ulica /i, '')
RemoveUlicaPrefix(str) ==
    IF Len(str) >= 6 /\ ToLowerCase(SubSeq(str, 1, 6)) = <<"u", "l", "i", "c", "a", " ">>
    THEN SubSeq(str, 7, Len(str))
    ELSE str

(***************************************************************************)
(* Features and lamps                                                      *)
(***************************************************************************)
Num(n) == [t |-> "number", v |-> n]
Str(chars) == [t |-> "string", v |-> chars]

\* String(value): the decimal text of a number, a string as it is
StringOf(value) ==
    IF value.t = "number" THEN [t |-> "string", v |-> <<"decimal", value.v>>] ELSE value

\* JavaScript truthiness of an attribute value
Truthy(value) ==
    /\ value # Undefined
    /\ value # Null
    /\ value # Num(0)
    /\ value # Str(<<>>)

\* attributes[name]
Attr(attributes, name) ==
    IF name \in DOMAIN attributes THEN attributes[name] ELSE Undefined

\* a coordinate that is a quotient of integers
Ratio(num, den) == [num |-> num, den |-> den]

RECURSIVE SumCoord(_, _)
SumCoord(ring, k) ==
    IF ring = <<>> THEN 0 ELSE Head(ring)[k] + SumCoord(Tail(ring), k)

\* (variant: a polygon yields the first vertex of its first ring)
transformCoordinatesFirstVertex(geometry) ==
    IF geometry = Undefined \/ geometry = Null THEN Null
    ELSE IF "x" \in DOMAIN geometry /\ "y" \in DOMAIN geometry
         THEN <<Ratio(geometry.x, 1), Ratio(geometry.y, 1)>>
         ELSE IF "rings" \in DOMAIN geometry /\ Len(geometry.rings) > 0
                 /\ Len(geometry.rings[1]) > 0
              THEN <<Ratio(geometry.rings[1][1][1], 1), Ratio(geometry.rings[1][1][2], 1)>>
              ELSE Null

\* transformCoordinates (utils/geometry)
transformCoordinates(geometry) ==
    IF geometry = Undefined \/ geometry = Null THEN Null
    ELSE IF "x" \in DOMAIN geometry /\ "y" \in DOMAIN geometry
         THEN <<Ratio(geometry.x, 1), Ratio(geometry.y, 1)>>
         ELSE IF "rings" \in DOMAIN geometry /\ Len(geometry.rings) > 0
                 /\ Len(geometry.rings[1]) > 0
              THEN LET ring == geometry.rings[1]
                   IN  <<Ratio(SumCoord(ring, 1), Len(ring)),
                         Ratio(SumCoord(ring, 2), Len(ring))>>
              ELSE Null

\* extractLampNumber
RECURSIVE extractLampNumber(_, _)
extractLampNumber(attributes, lampIdFields) ==
    IF lampIdFields = <<>> THEN Null
    ELSE LET field == Head(lampIdFields)
             value == Attr(attributes, field)
             lower == Attr(attributes, ToLowerCase(field))
             upper == Attr(attributes, ToUpperCase(field))
         IN  IF value # Null /\ value # Undefined /\ value # Str(<<>>)
             THEN StringOf(value)
             ELSE IF lower # Undefined /\ lower # Null THEN StringOf(lower)
             ELSE IF upper # Undefined /\ upper # Null THEN StringOf(upper)
             ELSE extractLampNumber(attributes, Tail(lampIdFields))

NameOBJECTID == <<"O", "B", "J", "E", "C", "T", "I", "D">>
NameObjectid == <<"o", "b", "j", "e", "c", "t", "i", "d">>
NameOID == <<"O", "I", "D">>

\* OBJECTID || objectid || OID || String(Math.random()); random is the value
\* Math.random() would give for this feature
FeatureId(attributes, random) ==
    IF Truthy(Attr(attributes, NameOBJECTID)) THEN Attr(attributes, NameOBJECTID)
    ELSE IF Truthy(Attr(attributes, NameObjectid)) THEN Attr(attributes, NameObjectid)
    ELSE IF Truthy(Attr(attributes, NameOID)) THEN Attr(attributes, NameOID)
    ELSE Str(<<"random", random>>)

\* transformFeaturesToLamps: map, then filter out the null entries; randoms[i]
\* is what Math.random() would give for the i-th feature
RECURSIVE transformFeaturesToLamps(_, _, _)
transformFeaturesToLamps(feats, fields, randoms) ==
    IF feats = <<>> THEN <<>>
    ELSE LET feature == Head(feats)
             coords == transformCoordinates(feature.geometry)
             rest == transformFeaturesToLamps(Tail(feats), fields, Tail(randoms))
         IN  IF coords = Null THEN rest
             ELSE << [id |-> StringOf(FeatureId(feature.attributes, Head(randoms))),
                      lampNumber |-> extractLampNumber(feature.attributes,
                                                       fields.lampIdFields),
                      coords |-> coords,
                      attributes |-> feature.attributes] >> \o rest

(***************************************************************************)
(* searchLamps: the query cascade.  Every awaited remote call is one step; *)
(* its answer is chosen by the environment.                                *)
(***************************************************************************)
StreetDub == <<"d", "u", "b">>
StreetRuza == <<"r", "u", "z_caron", "a">>
StreetDubUlica == <<" ", "d", "u", "b", " ", " ", "u", "l", "i", "c", "a">>
StreetInputs == {StreetDub, StreetRuza, StreetDubUlica}

\* lat / lng of a request: absent or a number
CoordInputs == {Undefined, Num(48)}

\* the schemas discoverFields() hands to searchLamps: one street field, three
SchemaChoices == {DiscoveredSchema(MetaTypical, 0), DefaultSchema(0)}

NameUlica == <<"u", "l", "i", "c", "a">>
NameCisloStlp == <<"c", "i", "s", "l", "o", "_", "s", "t", "l", "p">>

FeatLamp ==
    [attributes |-> (NameOBJECTID :> Num(7)) @@ (NameCisloStlp :> Str(<<"F", "1">>))
                    @@ (NameUlica :> Str(StreetDub)),
     geometry |-> [x |-> 17, y |-> 48]]

FeatNoGeometry ==
    [attributes |-> (NameOBJECTID :> Num(8)) @@ (NameUlica :> Str(StreetDub)),
     geometry |-> Undefined]

\* what queryAll / a single page can hold
FeatureAnswers == {<<>>, <<FeatLamp>>, <<FeatNoGeometry>>, <<FeatNoGeometry, FeatLamp>>}

\* how a remote query fails once executeWithRetry gives up
FailureKinds == {"bad_request", "transient_exhausted"}

RandomValues == {1, 2}

\* Array.prototype.slice(0, n)
Slice(seq, n) == SubSeq(seq, 1, IF Len(seq) < n THEN Len(seq) ELSE n)

SearchInit ==
    /\ sPc = "idle"
    /\ sReq = None
    /\ sCtx = None
    /\ features = <<>>
    /\ suggestedStreets = <<>>
    /\ streetCache = [sample_streets |-> Undefined, sample_streets_timestamp |-> Undefined]
    /\ apiKey = FALSE
    /\ sLog = <<>>
    /\ sSaw = {}
    /\ sResult = None

\* the log entry of a remote call
LogEntry(strategy, kind, street, fieldsQueried, n) ==
    [strategy |-> strategy, kind |-> kind, site |-> <<"matcher", 0>>, street |-> street,
     fieldsQueried |-> fieldsQueried, n |-> n]

\* the log entry of a queryAll of the cascade: the features it gave as well
\* (none when it threw)
CascadeEntry(strategy, kind, site, street, deAccented, fieldsQueried, answer) ==
    [strategy |-> strategy, kind |-> kind, site |-> site, street |-> street,
     deAccented |-> deAccented, fieldsQueried |-> fieldsQueried,
     n |-> Len(answer), answer |-> answer]

\* (variant: a search without lamps is reported as an error)
SearchReturnsThrowsWhenEmpty(feats, suggested) ==
    /\ features' = feats
    /\ suggestedStreets' = suggested
    /\ sPc' = "done"
    /\ sCtx' = None
    /\ \E randoms \in [1..Len(feats) -> RandomValues] :
          LET lamps == transformFeaturesToLamps(feats, sReq.fields, randoms)
          IN  sResult' = IF lamps = <<>>
                         THEN [kind |-> "error"]
                         ELSE IF Len(suggested) > 0
                              THEN [kind |-> "result", lamps |-> lamps,
                                    fieldDiscovery |-> sReq.fields,
                                    suggestedStreets |-> suggested]
                              ELSE [kind |-> "result", lamps |-> lamps,
                                    fieldDiscovery |-> sReq.fields]

\* (variant: only the suggestions that can have been tried are reported)
SearchReturnsTriedOnly(feats, suggested) ==
    /\ features' = feats
    /\ suggestedStreets' = suggested
    /\ sPc' = "done"
    /\ sCtx' = None
    /\ \E randoms \in [1..Len(feats) -> RandomValues] :
          LET lamps == transformFeaturesToLamps(feats, sReq.fields, randoms)
          IN  sResult' = IF Len(suggested) > 0
                         THEN [kind |-> "result", lamps |-> lamps,
                               fieldDiscovery |-> sReq.fields,
                               suggestedStreets |-> Slice(suggested, 2)]
                         ELSE [kind |-> "result", lamps |-> lamps,
                               fieldDiscovery |-> sReq.fields]

\* lines 64-70: transform the features and return; the key suggestedStreets is
\* spread into the result only when the list is not empty
SearchReturns(feats, suggested) ==
    /\ features' = feats
    /\ suggestedStreets' = suggested
    /\ sPc' = "done"
    /\ sCtx' = None
    /\ \E randoms \in [1..Len(feats) -> RandomValues] :
          LET lamps == transformFeaturesToLamps(feats, sReq.fields, randoms)
          IN  sResult' = IF Len(suggested) > 0
                         THEN [kind |-> "result", lamps |-> lamps,
                               fieldDiscovery |-> sReq.fields,
                               suggestedStreets |-> suggested]
                         ELSE [kind |-> "result", lamps |-> lamps,
                               fieldDiscovery |-> sReq.fields]

\* searchByStreetAttribute(street, fields) entered: tryStreetVariants awaits the
\* query on the first street field
GoAttr(street, site, suggestion, feats, suggested) ==
    /\ sPc' = "attr"
    /\ sCtx' = [site |-> site, suggestion |-> suggestion, street |-> street,
                deAccented |-> FALSE, field |-> 1]
    /\ features' = feats
    /\ suggestedStreets' = suggested
    /\ UNCHANGED sResult

suggestionsTried == 2

\* (variant: every suggestion is tried, not only the first two)
GoSuggestionNoLimit(done, suggested) ==
    IF done < Len(suggested)
    THEN GoAttr(suggested[done + 1], "suggestion", done + 1, <<>>, suggested)
    ELSE SearchReturns(<<>>, suggested)

\* for (const suggestion of suggestedStreets.slice(0, 2)): the iteration after
\* the first `done` ones
GoSuggestion(done, suggested) ==
    IF done < Len(Slice(suggested, suggestionsTried))
    THEN GoAttr(suggested[done + 1], "suggestion", done + 1, <<>>, suggested)
    ELSE SearchReturns(<<>>, suggested)

\* tryExactMatches: the variations, in order
Variations(street) ==
    << street,
       removeDiacritics(street),
       street \o <<" ", "u", "l", "i", "c", "a">>,
       RemoveFirst(street, <<" ", "u", "l", "i", "c", "a">>),
       RemoveUlicaPrefix(street) >>

\* findBestStreetMatch entered: tryExactMatches awaits its i-th query
GoExact(i, input) ==
    /\ sPc' = "exact"
    /\ sCtx' = [input |-> input, variation |-> i]
    /\ features' = <<>>
    /\ suggestedStreets' = <<>>
    /\ UNCHANGED sResult

\* (variant: the test features.length === 0 before the attribute search is gone)
AfterSpatialAlwaysAttribute(feats) ==
    GoAttr(sReq.normalizedStreet, "main", 0, feats, <<>>)

\* line 40: if (features.length === 0) after the spatial strategy; a non-empty
\* result also skips the block of line 45
AfterSpatial(feats) ==
    IF Len(feats) = 0
    THEN GoAttr(sReq.normalizedStreet, "main", 0, feats, <<>>)
    ELSE SearchReturns(feats, <<>>)

\* searchLamps up to its first remote query
SearchBegin ==
    /\ sPc = "idle"
    /\ apiKey' \in BOOLEAN
    /\ \E street \in StreetInputs, lat \in CoordInputs, lng \in CoordInputs,
          fields \in SchemaChoices :
          /\ sReq' = [street |-> street, lat |-> lat, lng |-> lng, fields |-> fields,
                      normalizedStreet |-> normalizeStreet(street)]
          /\ IF lat # Undefined /\ lng # Undefined
             THEN /\ sPc' = "spatial"
                  /\ sCtx' = [street |-> normalizeStreet(street)]
                  /\ features' = <<>>
                  /\ suggestedStreets' = <<>>
             ELSE /\ sPc' = "attr"
                  /\ sCtx' = [site |-> "main", suggestion |-> 0,
                              street |-> normalizeStreet(street),
                              deAccented |-> FALSE, field |-> 1]
                  /\ features' = <<>>
                  /\ suggestedStreets' = <<>>
    /\ sLog' = <<>>
    /\ sSaw' = {}
    /\ sResult' = None
    /\ UNCHANGED streetCache
    /\ UNCHANGED notSearch

\* searchWithSpatialFilter: queryAll answers
SpatialAnswer ==
    /\ sPc = "spatial"
    /\ \E answer \in FeatureAnswers :
          /\ sLog' = Append(sLog, CascadeEntry(1, "spatial", <<"main", 0>>, sCtx.street, FALSE,
                                                sReq.fields.streetFields, answer))
          /\ AfterSpatial(answer)
    /\ UNCHANGED <<sReq, streetCache, apiKey, sSaw>>
    /\ UNCHANGED notSearch

\* searchWithSpatialFilter: queryAll throws; catch: return []
SpatialFails ==
    /\ sPc = "spatial"
    /\ \E kind \in FailureKinds : sSaw' = sSaw \cup {kind}
    /\ sLog' = Append(sLog, CascadeEntry(1, "spatial", <<"main", 0>>, sCtx.street, FALSE,
                                          sReq.fields.streetFields, <<>>))
    /\ AfterSpatial(<<>>)
    /\ UNCHANGED <<sReq, streetCache, apiKey>>
    /\ UNCHANGED notSearch

\* which strategy of the cascade an attribute query belongs to
StrategyOf(ctx, combined) ==
    IF ctx.site = "suggestion" THEN 5
    ELSE IF ctx.deAccented THEN 4
    ELSE IF combined THEN 3
    ELSE 2

\* the log entry of the attribute query tryStreetVariants is awaiting
AttrEntry(answer) ==
    LET streetFields == sReq.fields.streetFields
        combined == sCtx.field > Len(streetFields)
    IN  CascadeEntry(StrategyOf(sCtx, combined),
                     IF combined THEN "combined" ELSE "field",
                     <<sCtx.site, sCtx.suggestion>>,
                     sCtx.street,
                     sCtx.deAccented,
                     IF combined THEN streetFields ELSE <<streetFields[sCtx.field]>>,
                     answer)

\* searchByStreetAttribute returned []: back in searchLamps
AfterAttributeSearchEmpty ==
    IF sCtx.site = "main"
    THEN GoExact(1, normalizeStreet(sReq.normalizedStreet))
    ELSE GoSuggestion(sCtx.suggestion, suggestedStreets)

\* (variant: the de-accented pass is made whether or not the string changed)
NeedsDeAccentedPassAlways(ctx) == ~ctx.deAccented

\* searchByStreetAttribute, lines 114-116: the first tryStreetVariants gave
\* nothing and removeDiacritics changed the string
NeedsDeAccentedPass(ctx) ==
    /\ ~ctx.deAccented
    /\ removeDiacritics(ctx.street) # ctx.street

\* tryStreetVariants / searchByStreetAttribute after a query that gave nothing
\* (no features, or an error that the catch block swallowed)
AfterAttrQueryEmpty ==
    LET nFields == Len(sReq.fields.streetFields)
        deAccented == removeDiacritics(sCtx.street)
    IN  IF sCtx.field < nFields \/ (sCtx.field = nFields /\ nFields > 1)
        THEN /\ sCtx' = [sCtx EXCEPT !.field = sCtx.field + 1]
             /\ UNCHANGED <<sPc, features, suggestedStreets, sResult>>
        ELSE IF NeedsDeAccentedPass(sCtx)
             THEN /\ sCtx' = [sCtx EXCEPT !.street = deAccented, !.deAccented = TRUE,
                                          !.field = 1]
                  /\ UNCHANGED <<sPc, features, suggestedStreets, sResult>>
             ELSE AfterAttributeSearchEmpty

\* (variant: the features of a single field are not returned at once; only the
\* last query of a pass returns what it found)
AfterAttrQueryNoEarlyReturn(answer) ==
    IF Len(answer) > 0 /\ sCtx.field > Len(sReq.fields.streetFields)
    THEN SearchReturns(answer, suggestedStreets)
    ELSE AfterAttrQueryEmpty

\* tryStreetVariants after a query that answered: if (features.length > 0)
\* return features, up through searchByStreetAttribute into searchLamps
AfterAttrQuery(answer) ==
    IF Len(answer) > 0
    THEN SearchReturns(answer, suggestedStreets)
    ELSE AfterAttrQueryEmpty

\* tryStreetVariants: queryAll answers
AttrAnswer ==
    /\ sPc = "attr"
    /\ \E answer \in FeatureAnswers :
          /\ sLog' = Append(sLog, AttrEntry(answer))
          /\ AfterAttrQuery(answer)
    /\ UNCHANGED <<sReq, streetCache, apiKey, sSaw>>
    /\ UNCHANGED notSearch

\* tryStreetVariants: queryAll throws; the catch block only logs
AttrFails ==
    /\ sPc = "attr"
    /\ \E kind \in FailureKinds : sSaw' = sSaw \cup {kind}
    /\ sLog' = Append(sLog, AttrEntry(<<>>))
    /\ AfterAttrQueryEmpty
    /\ UNCHANGED <<sReq, streetCache, apiKey>>
    /\ UNCHANGED notSearch

(***************************************************************************)
(* StreetMatcherService.findBestStreetMatch and the retry of searchLamps   *)
(* with its suggestions                                                    *)
(***************************************************************************)
StreetLipa == <<"l", "i", "p", "a">>

\* a single page response: response.features may be missing
PageAnswers ==
    {[features |-> f] : f \in FeatureAnswers} \cup {[exceededTransferLimit |-> FALSE]}

\* the `ulica` attribute values of the features the sample query returns
FeatSample(value) == [attributes |-> (NameUlica :> value), geometry |-> Undefined]

Digit(k) == <<"0", "1", "2", "3", "4", "5", "6", "7", "8", "9">>[k + 1]

\* the street name "n" followed by the three digits of i
NumberedStreet(i) == <<"n", Digit(i \div 100), Digit((i \div 10) % 10), Digit(i % 10)>>

\* a page of 262 features naming 212 different streets, ten of them twice
LongPage ==
    <<FeatSample(Str(StreetDub)), FeatSample(Str(StreetRuza))>>
        \o [i \in 1..260 |-> FeatSample(Str(NumberedStreet((i - 1) % 210)))]

SampleAnswers ==
    { [features |-> <<>>],
      [features |-> <<FeatSample(Str(StreetDub)), FeatSample(Null),
                      FeatSample(Str(StreetDub)), FeatSample(Num(5)),
                      FeatSample(Str(StreetRuza))>>],
      [features |-> LongPage],
      [exceededTransferLimit |-> FALSE] }

\* choices[0].message of the completion: its content line by line, or a message
\* without content
AIMessages ==
    { [role |-> "assistant"],
      [role |-> "assistant", content |-> << <<>> >>],
      [role |-> "assistant", content |-> << <<" ", "d", "u", "b", " ">>, StreetLipa >>],
      [role |-> "assistant",
       content |-> << StreetLipa, StreetRuza, StreetDub, StreetRuza, StreetDub >>] }

sampleLimit == 200
suggestionLimit == 3

\* 24 * 60 * 60 * 1000
cacheExpiry == 24 * 60 * 60 * 1000

\* String.prototype.trim on a line
RECURSIVE TrimStart(_)
TrimStart(str) ==
    IF str # <<>> /\ Head(str) = " " THEN TrimStart(Tail(str)) ELSE str

RECURSIVE TrimEndAll(_)
TrimEndAll(str) ==
    IF str # <<>> /\ str[Len(str)] = " " THEN TrimEndAll(SubSeq(str, 1, Len(str) - 1))
    ELSE str

Trim(str) == TrimEndAll(TrimStart(str))

\* Array.prototype.includes
Contains(seq, x) == \E i \in 1..Len(seq) : seq[i] = x

\* arr.indexOf(x) for an x that occurs in arr, 1-based
FirstIndexOf(arr, x) ==
    CHOOSE i \in DOMAIN arr : arr[i] = x /\ \A j \in 1..(i - 1) : arr[j] # x

\* .filter((street, index, arr) => arr.indexOf(street) === index)
Unique(arr) ==
    LET indexed == [i \in DOMAIN arr |-> [index |-> i, street |-> arr[i]]]
        IsFirst(e) == FirstIndexOf(arr, e.street) = e.index
        kept == SelectSeq(indexed, IsFirst)
    IN  [k \in DOMAIN kept |-> kept[k].street]

\* street && typeof street === 'string'
IsStreetName(value) == Truthy(value) /\ value.t = "string"

\* .map(feature => feature.attributes.ulica).filter(street => street && typeof
\* street === 'string')
StreetNamesOf(feats) ==
    LET values == [i \in DOMAIN feats |-> Attr(feats[i].attributes, NameUlica)]
        kept == SelectSeq(values, IsStreetName)
    IN  [k \in DOMAIN kept |-> kept[k].v]

\* getSampleStreetNames: the list built from a page of features
SampleStreets(feats) == Slice(Unique(StreetNamesOf(feats)), sampleLimit)

\* (variant: the lines are not checked against existingStreets)
RECURSIVE KnownLinesUnchecked(_, _)
KnownLinesUnchecked(lines, existingStreets) ==
    IF lines = <<>> THEN <<>>
    ELSE LET line == Trim(Head(lines))
             rest == KnownLinesUnchecked(Tail(lines), existingStreets)
         IN  IF line # <<>> THEN <<line>> \o rest ELSE rest

\* .map(line => line.trim()).filter(line => line && existingStreets.includes(line))
RECURSIVE KnownLines(_, _)
KnownLines(lines, existingStreets) ==
    IF lines = <<>> THEN <<>>
    ELSE LET line == Trim(Head(lines))
             rest == KnownLines(Tail(lines), existingStreets)
         IN  IF line # <<>> /\ Contains(existingStreets, line) THEN <<line>> \o rest
             ELSE rest

\* (variant: without .slice(0, 3))
AISuggestionsNoLimit(message, existingStreets) ==
    IF "content" \notin DOMAIN message THEN <<>>
    ELSE KnownLines(message.content, existingStreets)

\* getAIStreetMatches: the suggestions read from the completion
AISuggestions(message, existingStreets) ==
    IF "content" \notin DOMAIN message THEN <<>>
    ELSE Slice(KnownLines(message.content, existingStreets), suggestionLimit)

\* isCacheValid('sample_streets') at time now
isCacheValid(now) ==
    LET cacheTime == streetCache.sample_streets_timestamp
    IN  IF cacheTime = Undefined THEN FALSE
        ELSE now - cacheTime < cacheExpiry

\* findBestStreetMatch returned `suggested`: searchLamps enters its loop over
\* suggestedStreets.slice(0, 2)
GoSuggestions(suggested) == GoSuggestion(0, suggested)

\* (variant: without the fallback to [normalizedInput] when no key is set)
AfterSampleNoFallback(existingStreets) ==
    IF Len(existingStreets) = 0
    THEN GoSuggestions(<<sCtx.input>>)
    ELSE IF ~apiKey
         THEN GoSuggestions(<<>>)
         ELSE /\ sPc' = "ai"
              /\ sCtx' = [input |-> sCtx.input, existingStreets |-> existingStreets]
              /\ UNCHANGED <<features, suggestedStreets, sResult>>

\* findBestStreetMatch once getSampleStreetNames has returned existingStreets
AfterSample(existingStreets) ==
    IF Len(existingStreets) = 0
    THEN GoSuggestions(<<sCtx.input>>)
    ELSE IF ~apiKey
         THEN GoSuggestions(<<sCtx.input>>)
         ELSE /\ sPc' = "ai"
              /\ sCtx' = [input |-> sCtx.input, existingStreets |-> existingStreets]
              /\ UNCHANGED <<features, suggestedStreets, sResult>>

\* tryExactMatches gave nothing: getSampleStreetNames up to its remote query
AfterExactEmpty ==
    LET cached == streetCache.sample_streets
    IN  IF cached # Undefined /\ isCacheValid(clock)
        THEN AfterSample(cached.streets)
        ELSE /\ sPc' = "sample"
             /\ sCtx' = [input |-> sCtx.input]
             /\ UNCHANGED <<features, suggestedStreets, sResult>>

\* tryExactMatches after a variation that matched nothing
AfterVariationEmpty ==
    IF sCtx.variation < Len(Variations(sCtx.input))
    THEN /\ sCtx' = [sCtx EXCEPT !.variation = sCtx.variation + 1]
         /\ UNCHANGED <<sPc, features, suggestedStreets, sResult>>
    ELSE AfterExactEmpty

ExactEntry(n) ==
    LogEntry(5, "exact", Variations(sCtx.input)[sCtx.variation], <<NameUlica>>, n)

\* tryExactMatches: queryByAttributes answers
ExactAnswer ==
    /\ sPc = "exact"
    /\ \E response \in PageAnswers :
          LET n == IF "features" \in DOMAIN response THEN Len(response.features) ELSE 0
          IN  /\ sLog' = Append(sLog, ExactEntry(n))
              /\ IF n > 0
                 THEN GoSuggestions(<<Variations(sCtx.input)[sCtx.variation]>>)
                 ELSE AfterVariationEmpty
    /\ UNCHANGED <<sReq, streetCache, apiKey, sSaw>>
    /\ UNCHANGED notSearch

\* tryExactMatches: queryByAttributes throws; the catch block only logs
ExactFails ==
    /\ sPc = "exact"
    /\ \E kind \in FailureKinds : sSaw' = sSaw \cup {kind}
    /\ sLog' = Append(sLog, ExactEntry(0))
    /\ AfterVariationEmpty
    /\ UNCHANGED <<sReq, streetCache, apiKey>>
    /\ UNCHANGED notSearch

SampleEntry(n) == LogEntry(5, "sample", <<>>, <<NameUlica>>, n)

\* SampleStreets of each answer that has features, evaluated once
SampleStreetsOf ==
    [response \in {a \in SampleAnswers : "features" \in DOMAIN a} |->
        SampleStreets(response.features)]

\* getSampleStreetNames: queryByAttributes('1=1', 0) answers
SampleAnswer ==
    /\ sPc = "sample"
    /\ \E response \in SampleAnswers :
          IF "features" \in DOMAIN response
          THEN LET streets == SampleStreetsOf[response]
               IN  /\ streetCache' = [streetCache EXCEPT
                                         !.sample_streets = [streets |-> streets]]
                   /\ sLog' = Append(sLog, SampleEntry(Len(response.features)))
                   /\ AfterSample(streets)
          ELSE /\ UNCHANGED streetCache
               /\ sLog' = Append(sLog, SampleEntry(0))
               /\ AfterSample(<<>>)
    /\ UNCHANGED <<sReq, apiKey, sSaw>>
    /\ UNCHANGED notSearch

\* getSampleStreetNames: the query throws; catch: log, return []
SampleFails ==
    /\ sPc = "sample"
    /\ \E kind \in FailureKinds : sSaw' = sSaw \cup {kind}
    /\ sLog' = Append(sLog, SampleEntry(0))
    /\ AfterSample(<<>>)
    /\ UNCHANGED <<sReq, streetCache, apiKey>>
    /\ UNCHANGED notSearch

\* the log entry of the completion call: the lines of the answer and what
\* getAIStreetMatches returned
AIEntry(content, aiMatches) ==
    [strategy |-> 5, kind |-> "ai", site |-> <<"matcher", 0>>, street |-> sCtx.input,
     fieldsQueried |-> <<>>, n |-> Len(aiMatches), content |-> content,
     matches |-> aiMatches]

\* getAIStreetMatches: the completion arrives
AIAnswer ==
    /\ sPc = "ai"
    /\ \E message \in AIMessages :
          LET aiMatches == AISuggestions(message, sCtx.existingStreets)
          IN  /\ sLog' = Append(sLog, AIEntry(
                             IF "content" \in DOMAIN message THEN message.content ELSE <<>>,
                             aiMatches))
              /\ GoSuggestions(IF Len(aiMatches) > 0 THEN aiMatches ELSE <<sCtx.input>>)
    /\ UNCHANGED <<sReq, streetCache, apiKey, sSaw>>
    /\ UNCHANGED notSearch

\* getAIStreetMatches: the completion call throws; catch: log, return []
AIFails ==
    /\ sPc = "ai"
    /\ sLog' = Append(sLog, AIEntry(<<>>, <<>>))
    /\ GoSuggestions(<<sCtx.input>>)
    /\ UNCHANGED <<sReq, streetCache, apiKey, sSaw>>
    /\ UNCHANGED notSearch

\* the caller has taken the result; the locals of the call are gone
SearchConsumed ==
    /\ sPc = "done"
    /\ sPc' = "idle"
    /\ sReq' = None
    /\ sCtx' = None
    /\ features' = <<>>
    /\ suggestedStreets' = <<>>
    /\ sLog' = <<>>
    /\ sSaw' = {}
    /\ sResult' = None
    /\ UNCHANGED <<streetCache, apiKey>>
    /\ UNCHANGED notSearch

SearchNext ==
    \/ SearchBegin
    \/ SearchConsumed
    \/ SpatialAnswer
    \/ SpatialFails
    \/ AttrAnswer
    \/ AttrFails
    \/ ExactAnswer
    \/ ExactFails
    \/ SampleAnswer
    \/ SampleFails
    \/ AIAnswer
    \/ AIFails

\* the remote call a request is waiting for returns or fails
SearchSettles == sPc \notin {"idle", "done"} /\ SearchNext

(***************************************************************************)
(* BratislavaStreetsService: the gazetteer matcher                         *)
(***************************************************************************)
\* toLowerCase on the letters of the gazetteer, accented capitals included
GazLowerChar(c) ==
    CASE c = "A_acute" -> "a_acute" [] c = "C_caron" -> "c_caron"
      [] c = "S_caron" -> "s_caron" [] c = "Z_caron" -> "z_caron"
      [] c = "L_caron" -> "l_caron" [] c = "U_acute" -> "u_acute"
      [] OTHER -> ToLowerChar(c)

\* (variant: a_diaeresis is folded to a_acute, which a second pass folds again)
FoldCharChained(c) ==
    CASE c \in {"a_diaeresis"} -> "a_acute"
      [] c \in {"a_acute"} -> "a"
      [] OTHER -> c

\* the chain of .replace(/[...]/g, base) of normalizeStreetName, lines 82-95
FoldChar(c) ==
    CASE c \in {"a_acute", "a_diaeresis"} -> "a"
      [] c \in {"c_caron", "c_acute"} -> "c"
      [] c \in {"d_caron", "d_stroke"} -> "d"
      [] c \in {"e_acute", "e_caron", "e_diaeresis"} -> "e"
      [] c \in {"i_acute"} -> "i"
      [] c \in {"l_caron", "l_acute"} -> "l"
      [] c \in {"n_caron", "n_acute"} -> "n"
      [] c \in {"o_acute", "o_circumflex", "o_diaeresis"} -> "o"
      [] c \in {"r_acute", "r_caron"} -> "r"
      [] c \in {"s_caron", "s_acute"} -> "s"
      [] c \in {"t_caron"} -> "t"
      [] c \in {"u_acute", "u_ring", "u_diaeresis"} -> "u"
      [] c \in {"y_acute", "y_diaeresis"} -> "y"
      [] c \in {"z_caron", "z_acute"} -> "z"
      [] OTHER -> c

\* the characters \s and trim() treat as white space
IsWhitespace(c) == c \in {" ", "\t"}

\* String.prototype.trim
RECURSIVE GazTrimStart(_)
GazTrimStart(str) ==
    IF str # <<>> /\ IsWhitespace(Head(str)) THEN GazTrimStart(Tail(str)) ELSE str

RECURSIVE GazTrimEnd(_)
GazTrimEnd(str) ==
    IF str # <<>> /\ IsWhitespace(str[Len(str)])
    THEN GazTrimEnd(SubSeq(str, 1, Len(str) - 1))
    ELSE str

GazTrim(str) == GazTrimEnd(GazTrimStart(str))

\* .replace(/\s+/g, ' '): every run of white space becomes one space
RECURSIVE CollapseWhitespace(_, _)
CollapseWhitespace(str, afterSpace) ==
    IF str = <<>> THEN <<>>
    ELSE IF IsWhitespace(Head(str))
         THEN (IF afterSpace THEN <<>> ELSE <<" ">>)
                  \o CollapseWhitespace(Tail(str), TRUE)
         ELSE <<Head(str)>> \o CollapseWhitespace(Tail(str), FALSE)

\* normalizeStreetName: lower case, trimmed, runs of whitespace collapsed,
\* accented letters folded
normalizeStreetName(name) ==
    LET lower == [i \in DOMAIN name |-> GazLowerChar(name[i])]
        collapsed == CollapseWhitespace(GazTrim(lower), FALSE)
    IN  [i \in DOMAIN collapsed |-> FoldChar(collapsed[i])]

Min3(a, b, c) == IF a <= b /\ a <= c THEN a ELSE IF b <= c THEN b ELSE c

\* the inner loop of levenshteinDistance, lines 146-153: row j of the matrix is
\* filled left to right from the row above. A row is kept as the sequence of
\* matrix[j][0..str1.length], so matrix[j][i - 1] is row[i] and the next cell to
\* fill is i = Len(row).
RECURSIVE MatrixRow(_, _, _, _)
MatrixRow(above, str1, ch, row) ==
    LET i == Len(row)
    IN  IF i > Len(str1) THEN row
        ELSE LET indicator == IF str1[i] = ch THEN 0 ELSE 1
             IN  MatrixRow(above, str1, ch,
                           Append(row, Min3(row[i] + 1, above[i + 1] + 1,
                                            above[i] + indicator)))

\* the outer loop, lines 145-154; matrix[j][0] = j starts each row, and each
\* row is complete, with Len(str1) + 1 cells, before the next one is begun
RECURSIVE MatrixRows(_, _, _, _)
MatrixRows(str1, str2, above, j) ==
    IF j > Len(str2) \/ Len(above) # Len(str1) + 1 THEN above
    ELSE MatrixRows(str1, str2, MatrixRow(above, str1, str2[j], <<j>>), j + 1)

\* levenshteinDistance: matrix[0][i] = i, then the rows; the result is
\* matrix[str2.length][str1.length]
levenshteinDistance(str1, str2) ==
    MatrixRows(str1, str2, [i \in 1..(Len(str1) + 1) |-> i - 1], 1)[Len(str1) + 1]

\* Math.max(2, Math.floor(normalizedInput.length * 0.3))
FuzzyThreshold(normalizedInput) ==
    LET scaled == (Len(normalizedInput) * 3) \div 10
    IN  IF scaled > 2 THEN scaled ELSE 2

partialLimit == 5
fuzzyLimit == 3

IsExact(street, normalizedInput) == street.normalized = normalizedInput

IsPartial(street, normalizedInput) ==
    \/ Includes(street.normalized, normalizedInput)
    \/ Includes(normalizedInput, street.normalized)

IsFuzzy(street, normalizedInput) ==
    levenshteinDistance(street.normalized, normalizedInput)
        <= FuzzyThreshold(normalizedInput)

\* (variant: the partial matches are looked for before the exact one)
findBestMatchPartialFirst(allStreets, userInput) ==
    LET normalizedInput == normalizeStreetName(userInput)
        Exact(street) == IsExact(street, normalizedInput)
        Partial(street) == IsPartial(street, normalizedInput)
        Fuzzy(street) == IsFuzzy(street, normalizedInput)
        exactMatches == SelectSeq(allStreets, Exact)
        partialMatches == Slice(SelectSeq(allStreets, Partial), partialLimit)
    IN  IF Len(partialMatches) > 0 THEN partialMatches
        ELSE IF Len(exactMatches) > 0 THEN <<exactMatches[1]>>
        ELSE Slice(SelectSeq(allStreets, Fuzzy), fuzzyLimit)

\* findBestMatch, lines 100-131, on the list getAllStreets returned
findBestMatch(allStreets, userInput) ==
    LET normalizedInput == normalizeStreetName(userInput)
        Exact(street) == IsExact(street, normalizedInput)
        Partial(street) == IsPartial(street, normalizedInput)
        Fuzzy(street) == IsFuzzy(street, normalizedInput)
        exactMatches == SelectSeq(allStreets, Exact)
        partialMatches == Slice(SelectSeq(allStreets, Partial), partialLimit)
    IN  IF Len(exactMatches) > 0 THEN <<exactMatches[1]>>
        ELSE IF Len(partialMatches) > 0 THEN partialMatches
        ELSE Slice(SelectSeq(allStreets, Fuzzy), fuzzyLimit)

\* { name, normalized: normalizeStreetName(name) }
StreetEntry(name) == [name |-> name, normalized |-> normalizeStreetName(name)]

GazNames ==
    { <<"D", "u", "b">>, <<"D", "u", "b", "o", "v", "a_acute">>,
      <<"D", "o", "b">>, <<"L", "i", "p", "a">>,
      <<"R", "u", "z_caron", "a">>, <<"D", "u", "b", "n", "a">> }

MaxStreets == 2

\* a list of seven streets that all contain "dub", and one of five short names
\* that are close to each other
GazDubList ==
    [i \in 1..8 |->
        StreetEntry(<< <<"D", "u", "b", "o", "v", "a_acute">>, <<"D", "u", "b">>,
                       <<"D", "u", "b", "n", "a">>, <<"D", "u", "b", "e", "k">>,
                       <<"D", "u", "b", "k", "y">>, <<"D", "u", "b", "n", "o">>,
                       <<"D", "u", "b", "e", "c">>, <<"L", "i", "p", "a">> >>[i])]

GazShortList ==
    [i \in 1..6 |->
        StreetEntry(<< <<"D", "u", "b">>, <<"D", "o", "b">>, <<"D", "u", "p">>,
                       <<"T", "o", "p">>, <<"D", "o", "m">>,
                       <<"L", "i", "p", "a">> >>[i])]

\* a list whose first three names are two edits away from "dop" and whose
\* fourth is one edit away
GazFarFirstList ==
    [i \in 1..4 |->
        StreetEntry(<< <<"D", "u", "b">>, <<"T", "u", "p">>, <<"D", "u", "m">>,
                       <<"D", "o", "b">> >>[i])]

\* commonStreets of getFallbackStreets, lines 160-164
commonStreets ==
    << <<"R", "u", "z_caron", "i", "n", "o", "v", "s", "k", "a_acute">>,
       <<"L", "a", "m", "a", "c_caron", "s", "k", "a_acute", " ", "c", "e", "s", "t", "a">>,
       <<"S", "t", "u", "d", "e", "n", "o", "h", "o", "r", "s", "k", "a_acute">>,
       <<"H", "l", "a", "v", "n", "a_acute">>,
       <<"B", "r", "a", "t", "i", "s", "l", "a", "v", "s", "k", "a_acute">>,
       <<"R", "a", "c_caron", "i", "a", "n", "s", "k", "a">>,
       <<"Z", "a_acute", "h", "r", "a", "d", "n", "i_acute", "c", "k", "a">>,
       <<"M", "i", "l", "e", "t", "i", "c_caron", "o", "v", "a">>,
       <<"P", "a", "r", "t", "i", "z", "a_acute", "n", "s", "k", "a", " ", "c", "e", "s", "t", "a">>,
       <<"B", "a", "j", "k", "a", "l", "s", "k", "a_acute">>,
       <<"T", "o", "m", "a_acute", "s_caron", "i", "k", "o", "v", "a">>,
       <<"K", "a", "r", "a", "d", "z_caron", "i", "c_caron", "o", "v", "a">> >>

\* getFallbackStreets: commonStreets.map(name => ({ name, normalized }))
getFallbackStreets == [i \in DOMAIN commonStreets |-> StreetEntry(commonStreets[i])]

\* the lists getAllStreets may return
GazLists ==
    UNION {[1..n -> {StreetEntry(name) : name \in GazNames}] : n \in 0..MaxStreets}
        \cup {GazDubList, GazShortList, GazFarFirstList, getFallbackStreets}

StudenoHorska == <<"S", "t", "u", "d", "e", "n", "o", " ", "H", "o", "r", "s", "k", "a">>

GazInputs ==
    { <<"D", "u", "b">>, <<" ", "d", "U", "B", " ">>, <<"d", "u">>,
      <<"d", "u", "b", "o", "v", "a">>, <<"d", "o", "p">>, <<"x", "y", "z">>,
      <<"r", "u", "z", "a">>, <<"l", "i", "p", "y">>, <<>>, StudenoHorska }

\* Names given to normalizeStreetName: every string of up to MaxNameLen
\* characters over capitals, small letters, both kinds of white space and
\* accented letters.
MaxNameLen == 4
NameAlphabet == {"D", "u", " ", "\t", "Z_caron", "a_diaeresis"}
NameInputs == UNION {[1..n -> NameAlphabet] : n \in 0..MaxNameLen}

GazInit ==
    /\ gQuery = None
    /\ gOut = None
    /\ nName = None
    /\ nOut = None

\* one call of findBestMatch
FindBestMatch ==
    /\ gQuery = None
    /\ nName = None
    /\ \E userInput \in GazInputs, allStreets \in GazLists :
          /\ gQuery' = [userInput |-> userInput, allStreets |-> allStreets]
          /\ gOut' = [matches |-> findBestMatch(allStreets, userInput)]
    /\ UNCHANGED <<nName, nOut>>
    /\ UNCHANGED notGaz

\* normalizeStreetName applied to a name, and again to what it returned (as
\* getAllStreets does to a name that findBestMatch later hands back)
NormalizeName ==
    /\ gQuery = None
    /\ nName = None
    /\ \E name \in NameInputs :
          /\ nName' = [name |-> name]
          /\ nOut' = [once |-> normalizeStreetName(name),
                      twice |-> normalizeStreetName(normalizeStreetName(name))]
    /\ UNCHANGED <<gQuery, gOut>>
    /\ UNCHANGED notGaz

\* the caller has taken the result
GazConsumed ==
    /\ gQuery # None \/ nName # None
    /\ gQuery' = None
    /\ gOut' = None
    /\ nName' = None
    /\ nOut' = None
    /\ UNCHANGED notGaz

GazNext == FindBestMatch \/ NormalizeName \/ GazConsumed

(***************************************************************************)
(* BratislavaStreetsService.getAllStreets and its callers in               *)
(* TSBTestController                                                       *)
(***************************************************************************)
\* private cacheTTL = 24 * 60 * 60 * 1000
cacheTTL == 24 * 60 * 60 * 1000

\* Requests to /tsb/test that may be in flight together.
MaxLookups == 2
LookupSlots == 1..MaxLookups

\* Clock advances: 1 ms, and one ms short of the TTL.
GazMaxTicks == 2
GazTickSteps == {1, cacheTTL - 1}

\* the letters of the names below, in the order localeCompare(_, 'sk') gives
\* them at its first level (unaccented letters, case set aside)
SkAlphabet == <<" ", "a", "b", "d", "i", "l", "m", "o", "p", "u">>

SkRank(c) == CHOOSE i \in DOMAIN SkAlphabet : SkAlphabet[i] = ToLowerChar(c)

\* a.name.localeCompare(b.name, 'sk') < 0, for names over SkAlphabet that differ
\* in more than case
LocaleBefore(a, b) ==
    \E k \in 1..(Len(a) + 1) :
        /\ k <= Len(b)
        /\ \A j \in 1..(k - 1) : SkRank(a[j]) = SkRank(b[j])
        /\ k <= Len(a) => SkRank(a[k]) < SkRank(b[k])

\* the elements of seq at the positions idx, in their order
AtIndices(seq, idx) ==
    [k \in 1..Cardinality(idx) |->
        seq[CHOOSE i \in idx : Cardinality({j \in idx : j <= i}) = k]]

\* .sort((a, b) => a.name.localeCompare(b.name, 'sk')); the sort is stable
SortByName(streets) ==
    LET Before(i, j) ==
            \/ LocaleBefore(streets[i].name, streets[j].name)
            \/ ~LocaleBefore(streets[j].name, streets[i].name) /\ i < j
        Position(i) == 1 + Cardinality({j \in DOMAIN streets : Before(j, i)})
    IN  [k \in DOMAIN streets |-> streets[CHOOSE i \in DOMAIN streets : Position(i) = k]]

\* lines 39-51: response.data split into lines, trimmed, the empty lines and the
\* line 'name' dropped, mapped to entries, the first entry of each normalized
\* name kept, sorted by name
ParseStreets(lines) ==
    LET trimmed == [i \in DOMAIN lines |-> GazTrim(lines[i])]
        IsName(line) == line # <<>> /\ line # <<"n", "a", "m", "e">>
        named == SelectSeq(trimmed, IsName)
        mapped == [i \in DOMAIN named |-> StreetEntry(named[i])]
        first == {i \in DOMAIN mapped :
                     \A j \in 1..(i - 1) : mapped[j].normalized # mapped[i].normalized}
    IN  SortByName(AtIndices(mapped, first))

\* What the source can answer: text (as its lines), or a body that is not a
\* string, on which response.data.split throws inside the try block.
OverpassAnswers ==
    { [lines |-> << <<"n", "a", "m", "e">>, <<"L", "i", "p", "a">>, <<>>,
                    <<" ", "D", "u", "b", " ">>, <<"D", "U", "B">> >>],
      [lines |-> << <<"D", "o", "m">>, <<"D", "u", "b">>, <<"D", "o", "m">> >>],
      [lines |-> << <<>> >>],
      [status |-> 200] }

\* the list each textual answer parses to
ParsedAnswers ==
    [data \in {d \in OverpassAnswers : "lines" \in DOMAIN d} |-> ParseStreets(data.lines)]

LookupIdle == [pc |-> "idle"]
LookupProcessed == [pc |-> "processed"]

StreetsInit ==
    /\ streetsCache = <<>>
    /\ cacheTimestamp = 0
    /\ gClock = 0
    /\ gTicks = 0
    /\ gReqs = [c \in LookupSlots |-> LookupIdle]
    /\ gReturn = None

\* where testTSBProcessing goes on after a getAllStreets call of its request:
\* after the processor's lookup comes the lookup of line 72-73, after that one
\* the response
AfterLookup(fresh) == IF fresh THEN LookupIdle ELSE LookupProcessed

\* getAllStreets up to its first suspension point, lines 15-32. A service built
\* by new BratislavaStreetsService() starts with streetsCache = [] and
\* cacheTimestamp = 0 (fresh = TRUE: the instance of line 72, which nothing
\* keeps after the request).
GetAllStreetsBegin(c, fresh) ==
    LET cache == IF fresh THEN <<>> ELSE streetsCache
        stamp == IF fresh THEN 0 ELSE cacheTimestamp
    IN  IF Len(cache) > 0 /\ (gClock - stamp) < cacheTTL
        THEN /\ gReturn' = [fresh |-> fresh, fetched |-> FALSE, failed |-> FALSE,
                            raised |-> FALSE, streets |-> cache]
             /\ gReqs' = [gReqs EXCEPT ![c] = AfterLookup(fresh)]
        ELSE /\ gReqs' = [gReqs EXCEPT ![c] =
                             [pc |-> "fetching", fresh |-> fresh, now |-> gClock]]
             /\ UNCHANGED gReturn

\* testTSBProcessing, line 65: processVoiceReport asks the controller's
\* long-lived service (constructor, line 49) for the street
ProcessVoiceReport ==
    /\ \E c \in LookupSlots :
          /\ gReqs[c].pc = "idle"
          /\ GetAllStreetsBegin(c, FALSE)
    /\ UNCHANGED <<streetsCache, cacheTimestamp, gClock, gTicks>>
    /\ UNCHANGED notStreets

\* testTSBProcessing, lines 72-73: a new BratislavaStreetsService is built and
\* asked for the same street
DebugLookup ==
    /\ \E c \in LookupSlots :
          /\ gReqs[c].pc = "processed"
          /\ GetAllStreetsBegin(c, TRUE)
    /\ UNCHANGED <<streetsCache, cacheTimestamp, gClock, gTicks>>
    /\ UNCHANGED notStreets

\* the catch block, lines 63-74: the expired cache if it has entries, else the
\* fallback list
GetAllStreetsCatch(c) ==
    LET call == gReqs[c]
        cache == IF call.fresh THEN <<>> ELSE streetsCache
    IN  /\ gReturn' = [fresh |-> call.fresh, fetched |-> TRUE, failed |-> TRUE,
                       raised |-> FALSE,
                       streets |-> IF Len(cache) > 0 THEN cache
                                   ELSE getFallbackStreets]
        /\ gReqs' = [gReqs EXCEPT ![c] = AfterLookup(call.fresh)]
        /\ UNCHANGED <<streetsCache, cacheTimestamp>>

\* (variant: the list is swapped in and the timestamp is left for a later step)
StoreStreetsListOnly(streetNames, now) ==
    /\ streetsCache' = streetNames
    /\ UNCHANGED cacheTimestamp

\* lines 53-54, with no suspension point between the two assignments:
\* this.streetsCache = streetNames; this.cacheTimestamp = now
StoreStreets(streetNames, now) ==
    /\ streetsCache' = streetNames
    /\ cacheTimestamp' = now

\* the source answers: lines 39-61 store and return the parsed list, unless
\* response.data has no split method
OverpassAnswer ==
    /\ \E c \in LookupSlots, data \in OverpassAnswers :
          /\ gReqs[c].pc = "fetching"
          /\ IF "lines" \in DOMAIN data
             THEN LET streetNames == ParsedAnswers[data]
                  IN  /\ IF gReqs[c].fresh
                         THEN UNCHANGED <<streetsCache, cacheTimestamp>>
                         ELSE StoreStreets(streetNames, gReqs[c].now)
                      /\ gReturn' = [fresh |-> gReqs[c].fresh, fetched |-> TRUE,
                                     failed |-> FALSE, raised |-> FALSE,
                                     streets |-> streetNames]
                      /\ gReqs' = [gReqs EXCEPT ![c] = AfterLookup(gReqs[c].fresh)]
             ELSE GetAllStreetsCatch(c)
    /\ UNCHANGED <<gClock, gTicks>>
    /\ UNCHANGED notStreets

\* the request to the source fails (timeout, network, HTTP status)
OverpassFails ==
    /\ \E c \in LookupSlots :
          /\ gReqs[c].pc = "fetching"
          /\ GetAllStreetsCatch(c)
    /\ UNCHANGED <<gClock, gTicks>>
    /\ UNCHANGED notStreets

\* time passes
GazTick ==
    /\ gTicks < GazMaxTicks
    /\ \E d \in GazTickSteps : gClock' = gClock + d
    /\ gTicks' = gTicks + 1
    /\ UNCHANGED <<streetsCache, cacheTimestamp, gReqs, gReturn>>
    /\ UNCHANGED notStreets

StreetsNext == ProcessVoiceReport \/ DebugLookup \/ OverpassAnswer \/ OverpassFails \/ GazTick

(***************************************************************************)
(* The two process-wide caches side by side. They share no variable, so a  *)
(* behaviour exercises one of them while the other rests in its initial    *)
(* state.                                                                  *)
(***************************************************************************)
CachesNext ==
    \/ StreetsInit /\ StartServer
    \/ StreetsInit /\ DiscoverCall
    \/ StreetsInit /\ FetchSucceeds
    \/ StreetsInit /\ FetchFails
    \/ StreetsInit /\ Tick
    \/ DiscInit /\ ProcessVoiceReport
    \/ DiscInit /\ DebugLookup
    \/ DiscInit /\ OverpassAnswer
    \/ DiscInit /\ OverpassFails
    \/ DiscInit /\ GazTick

(***************************************************************************)
(* ReportingService: processLampReport, identifyLikelyLamps,               *)
(* calculateOverallConfidence; GeocodingService.findNearestLamps           *)
(*                                                                         *)
(* Confidences are kept as integers, 1.0 being ConfidenceOne, so that the  *)
(* mean of up to five of them is exact; distances are whole metres.        *)
(***************************************************************************)
ConfidenceOne == 60000
Tenths(n) == (n * ConfidenceOne) \div 10
Hundredths(n) == (n * ConfidenceOne) \div 100

\* longest list of lamps searchLamps gives, and most address components the
\* interpreter extracts
MaxLamps == 6
MaxComponents == 2

\* lamp k of the street: { id, lampNumber, coords }; the first two lamps carry
\* a lamp number, the others none ("" stands for null)
StreetLamp(k) ==
    [id |-> k,
     lampNumber |-> IF k = 1 THEN "SM-1" ELSE IF k = 2 THEN "SM-2" ELSE "",
     coords |-> <<k, 0>>]
LampLists == {[k \in 1..n |-> StreetLamp(k)] : n \in 0..MaxLamps}

\* What geocodeAddress can give for an address: no location, or a location,
\* which calculateDistance turns into one distance per lamp. A location is
\* named by the distances it has to the lamps of the street, in metres.
DistanceTo(location, k) ==
    CASE location = "far" -> 60 + k
      [] location = "first" ->
            (CASE k = 1 -> 40 [] k = 2 -> 5 [] k = 3 -> 25 [] k = 4 -> 24
               [] k = 5 -> 50 [] k = 6 -> 51 [] OTHER -> 70 + k)
      [] location = "second" ->
            (CASE k = 1 -> 5 [] k = 2 -> 40 [] k = 3 -> 0 [] k = 4 -> 10
               [] OTHER -> 80 + k)
      [] location = "edge" ->
            (CASE k = 1 -> 25 [] k = 2 -> 40 [] OTHER -> 90 + k)

Locations == {"far", "first", "second", "edge"}
GeocodeAnswers == {[location |-> l] : l \in Locations} \cup {Null}

\* the radius identifyLikelyLamps passes, line 187, and the cut of line 139
geocodeRadius == 50
nearestLimit == 10

\* Array.prototype.sort with the comparator (a, b) => key(a) - key(b), keys[i]
\* being the key of seq[i]; stable
SortAscending(seq, keys) ==
    LET Before(i, j) == keys[i] < keys[j] \/ (keys[i] = keys[j] /\ i < j)
        Position(i) == 1 + Cardinality({j \in DOMAIN seq : Before(j, i)})
    IN  [k \in DOMAIN seq |-> seq[CHOOSE i \in DOMAIN seq : Position(i) = k]]

\* findNearestLamps after geocodeAddress returned, lines 117-139
findNearestLamps(answer, lamps, maxDistance) ==
    IF answer = Null THEN <<>>
    ELSE LET withDistance == [k \in DOMAIN lamps |->
                                 [lamp |-> lamps[k],
                                  distance |-> DistanceTo(answer.location, lamps[k].id)]]
             InRange(item) == item.distance <= maxDistance
             inRange == SelectSeq(withDistance, InRange)
             distances == [k \in DOMAIN inRange |-> inRange[k].distance]
         IN  Slice(SortAscending(inRange, distances), nearestLimit)

\* lamp.lampNumber || 'N/A'
LampNumberOrNA(lamp) == IF lamp.lampNumber # "" THEN lamp.lampNumber ELSE "N/A"

\* (variant: 1 - distance / 100 without the clamp)
GeocodedConfidenceUnclamped(distance) == ConfidenceOne - Hundredths(distance)

\* Math.max(0.1, Math.min(0.9, 1 - nearby.distance / 100)), line 195
GeocodedConfidence(distance) ==
    LET raw == ConfidenceOne - Hundredths(distance)
        capped == IF raw < Tenths(9) THEN raw ELSE Tenths(9)
    IN  IF capped > Tenths(1) THEN capped ELSE Tenths(1)

\* Math.max(0.1, 0.4 - index * 0.05), line 210 (index from 0)
PlaceholderConfidence(index) ==
    LET raw == Tenths(4) - index * Hundredths(5)
    IN  IF raw > Tenths(1) THEN raw ELSE Tenths(1)

\* distance: 999, line 209
unknownDistance == 999
degradedLimit == 5
candidateLimit == 3

\* the candidates pushed for one address component, lines 190-198
CandidatesOf(nearbyLamps) ==
    [k \in DOMAIN nearbyLamps |->
        [lampId |-> nearbyLamps[k].lamp.id,
         lampNumber |-> LampNumberOrNA(nearbyLamps[k].lamp),
         distance |-> nearbyLamps[k].distance,
         confidence |-> GeocodedConfidence(nearbyLamps[k].distance),
         coords |-> nearbyLamps[k].lamp.coords]]

\* lines 205-213: the first lamps of the street with placeholder confidences
DegradedCandidates(lamps) ==
    LET first == Slice(lamps, degradedLimit)
    IN  [k \in DOMAIN first |->
            [lampId |-> first[k].id,
             lampNumber |-> LampNumberOrNA(first[k]),
             distance |-> unknownDistance,
             confidence |-> PlaceholderConfidence(k - 1),
             coords |-> first[k].coords]]

\* .filter((item, index, self) => index === self.findIndex(i => i.lampId === item.lampId))
FirstPerLamp(cands) ==
    AtIndices(cands, {i \in DOMAIN cands :
                        \A j \in 1..(i - 1) : cands[j].lampId # cands[i].lampId})

\* (variant: the top candidates are not cut)
RankCandidatesUncut(cands) ==
    LET unique == FirstPerLamp(cands)
        descending == [k \in DOMAIN unique |-> 0 - unique[k].confidence]
    IN  SortAscending(unique, descending)

\* lines 216-221: duplicates removed, sorted by descending confidence, top 3
RankCandidates(cands) ==
    LET unique == FirstPerLamp(cands)
        descending == [k \in DOMAIN unique |-> 0 - unique[k].confidence]
    IN  Slice(SortAscending(unique, descending), candidateLimit)

\* identifyLikelyLamps after its loop, lines 205-223
LikelyLamps(cands, lamps) ==
    IF Len(cands) = 0 THEN DegradedCandidates(lamps) ELSE RankCandidates(cands)

RECURSIVE SumConfidence(_)
SumConfidence(cands) ==
    IF cands = <<>> THEN 0 ELSE Head(cands).confidence + SumConfidence(Tail(cands))

proximityMetres == 25

\* (variant: a closest candidate at exactly 25 m earns the bonus)
ProximityBonusInclusive(cands) ==
    IF Len(cands) > 1 /\ cands[1].distance <= proximityMetres THEN Tenths(1) ELSE 0

\* candidates.length > 1 && candidates[0].distance < 25 ? 0.1 : 0
ProximityBonus(cands) ==
    IF Len(cands) > 1 /\ cands[1].distance < proximityMetres THEN Tenths(1) ELSE 0

\* calculateOverallConfidence, lines 226-233
calculateOverallConfidence(cands) ==
    IF Len(cands) = 0 THEN Tenths(1)
    ELSE LET avgConfidence == SumConfidence(cands) \div Len(cands)
             total == avgConfidence + ProximityBonus(cands)
         IN  IF total < Hundredths(95) THEN total ELSE Hundredths(95)

\* what analyzeCitizenDescription returns without a key, and from its catch
\* block, lines 95-102 and 149-157
FallbackAnalysis == [addressComponents |-> [items |-> <<>>], confidence |-> Tenths(3)]

\* What the interpreter can reply: text that JSON.parse rejects, the JSON null,
\* an object without addressComponents, an object whose addressComponents is a
\* list of up to MaxComponents entries, or an object whose addressComponents is
\* a number.
AIReplies ==
    {[json |-> "invalid"], [json |-> "null"], [json |-> "object"]}
        \cup {[json |-> "object", addressComponents |-> [items |-> [k \in 1..n |-> k]]] :
                  n \in 0..MaxComponents}
        \cup {[json |-> "object", addressComponents |-> [number |-> 45]]}

\* lines 132-147: JSON.parse and the defaults; a rejected text and the property
\* access on null both end in the catch block
AnalysisOf(reply) ==
    IF reply.json # "object" THEN FallbackAnalysis
    ELSE [addressComponents |-> IF "addressComponents" \in DOMAIN reply
                                THEN reply.addressComponents
                                ELSE [items |-> <<>>],
          confidence |-> Tenths(5)]

ReportInit ==
    /\ pPc = "idle"
    /\ locationAnalysis = None
    /\ streetLamps = <<>>
    /\ candidates = <<>>
    /\ pComponent = 0
    /\ pReport = None

\* lines 63-82: the report is built and returned
ReportOf(detectedLamps) ==
    [detectedLamps |-> detectedLamps,
     confidence |-> calculateOverallConfidence(detectedLamps),
     status |-> "pending"]

\* processLampReport is called; analyzeCitizenDescription returns at once
\* without a key and awaits the interpreter with one
ReportBegin ==
    /\ pPc = "idle"
    /\ \E key \in BOOLEAN :
          IF key
          THEN pPc' = "analyzing" /\ UNCHANGED locationAnalysis
          ELSE pPc' = "searching" /\ locationAnalysis' = FallbackAnalysis
    /\ UNCHANGED <<streetLamps, candidates, pComponent, pReport>>
    /\ UNCHANGED notReport

\* the interpreter replies
InterpreterReplies ==
    /\ pPc = "analyzing"
    /\ \E reply \in AIReplies : locationAnalysis' = AnalysisOf(reply)
    /\ pPc' = "searching"
    /\ UNCHANGED <<streetLamps, candidates, pComponent, pReport>>
    /\ UNCHANGED notReport

\* the call of the interpreter fails
InterpreterFails ==
    /\ pPc = "analyzing"
    /\ locationAnalysis' = FallbackAnalysis
    /\ pPc' = "searching"
    /\ UNCHANGED <<streetLamps, candidates, pComponent, pReport>>
    /\ UNCHANGED notReport

\* searchLamps returns; identifyLikelyLamps starts its loop over
\* locationAnalysis.addressComponents, line 180: a number is not iterable and
\* the for-of raises outside every try block; with no component the loop is
\* skipped and the report is built; else the first component is geocoded
LampsFound ==
    /\ pPc = "searching"
    /\ \E lamps \in LampLists :
          /\ streetLamps' = lamps
          /\ IF "items" \notin DOMAIN locationAnalysis.addressComponents
             THEN /\ pReport' = [raised |-> "TypeError"]
                  /\ pPc' = "done"
                  /\ UNCHANGED pComponent
             ELSE IF Len(locationAnalysis.addressComponents.items) = 0
             THEN /\ pReport' = ReportOf(LikelyLamps(<<>>, lamps))
                  /\ pPc' = "done"
                  /\ UNCHANGED pComponent
             ELSE /\ pPc' = "geocoding"
                  /\ pComponent' = 1
                  /\ UNCHANGED pReport
    /\ UNCHANGED <<locationAnalysis, candidates>>
    /\ UNCHANGED notReport

\* geocodeAddress settles for the component in hand (its own failures end in
\* "no location", lines 58-62 and 91-95); the nearby lamps are pushed, and
\* after the last component the report is built
GeocodeSettles ==
    /\ pPc = "geocoding"
    /\ \E answer \in GeocodeAnswers :
          LET nearbyLamps == findNearestLamps(answer, streetLamps, geocodeRadius)
              pushed == candidates \o CandidatesOf(nearbyLamps)
          IN  /\ candidates' = pushed
              /\ IF pComponent < Len(locationAnalysis.addressComponents.items)
                 THEN /\ pComponent' = pComponent + 1
                      /\ UNCHANGED <<pPc, pReport>>
                 ELSE /\ pReport' = ReportOf(LikelyLamps(pushed, streetLamps))
                      /\ pPc' = "done"
                      /\ UNCHANGED pComponent
    /\ UNCHANGED <<locationAnalysis, streetLamps>>
    /\ UNCHANGED notReport

\* the caller has taken the report
ReportConsumed ==
    /\ pPc = "done"
    /\ pPc' = "idle"
    /\ locationAnalysis' = None
    /\ streetLamps' = <<>>
    /\ candidates' = <<>>
    /\ pComponent' = 0
    /\ pReport' = None
    /\ UNCHANGED notReport

ReportNext ==
    \/ ReportBegin \/ InterpreterReplies \/ InterpreterFails \/ LampsFound
    \/ GeocodeSettles \/ ReportConsumed

(***************************************************************************)
(* transformFeaturesToLamps on its own: the same features transformed in   *)
(* two requests                                                            *)
(***************************************************************************)
NameFID == <<"F", "I", "D">>

\* a polygon feature whose identifier is in the attribute objectid
FeatPolygon ==
    [attributes |-> (NameObjectid :> Num(9)) @@ (NameUlica :> Str(StreetDub)),
     geometry |-> [rings |-> << << <<0, 0>>, <<4, 0>>, <<4, 2>>, <<0, 1>> >>,
                                << <<9, 9>> >> >>]]

\* polygons without a vertex to average
FeatNoRings ==
    [attributes |-> (NameOBJECTID :> Num(10)), geometry |-> [rings |-> <<>>]]

FeatEmptyRing ==
    [attributes |-> (NameOBJECTID :> Num(11)),
     geometry |-> [rings |-> << <<>>, << <<1, 1>> >> >>]]

\* the feature store's empty point: x is null and there is no y
FeatEmptyPoint ==
    [attributes |-> (NameOBJECTID :> Num(12)), geometry |-> [x |-> Null]]

\* a point feature of a layer whose object identifier is called FID
FeatFid ==
    [attributes |-> (NameFID :> Num(3)) @@ (NameCisloStlp :> Str(<<"F", "3">>)),
     geometry |-> [x |-> 18, y |-> 49]]

NameLampId == <<"l", "a", "m", "p", "_", "i", "d">>

\* a point feature whose lamp number column is empty and whose lamp_id is set
FeatEmptyNumber ==
    [attributes |-> (NameOBJECTID :> Num(13)) @@ (NameCisloStlp :> Str(<<>>))
                        @@ (NameLampId :> Str(<<"L", "5">>)),
     geometry |-> [x |-> 17, y |-> 48]]

SampleFeatures ==
    {FeatLamp, FeatNoGeometry, FeatPolygon, FeatNoRings, FeatEmptyRing,
     FeatEmptyPoint, FeatFid, FeatEmptyNumber}

\* longest feature list transformed
MaxFeatures == 2
FeatureLists == UNION {[1..n -> SampleFeatures] : n \in 0..MaxFeatures}

TransformInit ==
    /\ tFeatures = None
    /\ tLamps = None
    /\ tLampsAgain = None

\* two requests get the same features under the same schema and transform
\* them, each with its own draws of Math.random()
TransformTwice ==
    /\ tFeatures = None
    /\ \E feats \in FeatureLists, fields \in SchemaChoices :
          \E randoms, randomsAgain \in [1..Len(feats) -> RandomValues] :
              /\ tFeatures' = [features |-> feats, fields |-> fields]
              /\ tLamps' = [lamps |-> transformFeaturesToLamps(feats, fields, randoms)]
              /\ tLampsAgain' =
                    [lamps |-> transformFeaturesToLamps(feats, fields, randomsAgain)]
    /\ UNCHANGED notTransform

\* both requests have returned
TransformConsumed ==
    /\ tFeatures # None
    /\ tFeatures' = None
    /\ tLamps' = None
    /\ tLampsAgain' = None
    /\ UNCHANGED notTransform

TransformNext == TransformTwice \/ TransformConsumed

(***************************************************************************)
(* Properties of searchLamps                                               *)
(***************************************************************************)
\* the queries of the cascade proper: they ask for lamp features
CascadeKinds == {"spatial", "field", "combined"}

\* the log entries of strategy s
EntriesOf(s) == {i \in DOMAIN sLog : sLog[i].strategy = s}

BothCoordinates == sReq.lat # Undefined /\ sReq.lng # Undefined

\* C1: within one searchLamps request the remote queries are issued in the
\* order spatial (1), per-field (2), combined (3), de-accented (4), gazetteer
\* fallback (5); the spatial query is issued only when lat and lng are both
\* given; a query of a later strategy is issued only when the earlier strategies
\* that apply have been issued before it and gave nothing; and once a cascade
\* query yields at least one feature no further query is issued.
C1_CascadeOrder ==
    sReq # None =>
        /\ \A i, j \in DOMAIN sLog : i < j => sLog[i].strategy <= sLog[j].strategy
        /\ EntriesOf(1) # {} => BothCoordinates
        /\ (BothCoordinates /\ sLog # <<>>) => sLog[1].strategy = 1
        /\ \A i \in DOMAIN sLog :
              /\ sLog[i].strategy = 2 =>
                    (i = 1 \/ sLog[i - 1].strategy \in {1, 2})
              /\ sLog[i].strategy \in {3, 4, 5} =>
                    Cardinality(EntriesOf(2)) = Len(sReq.fields.streetFields)
              /\ (sLog[i].strategy \in {4, 5} /\ Len(sReq.fields.streetFields) > 1) =>
                    EntriesOf(3) # {}
              /\ (sLog[i].strategy = 5
                    /\ removeDiacritics(sReq.normalizedStreet) # sReq.normalizedStreet) =>
                    EntriesOf(4) # {}
        /\ \A i \in DOMAIN sLog :
              (sLog[i].kind \in CascadeKinds /\ sLog[i].n > 0) =>
                  /\ i = Len(sLog)
                  /\ sPc = "done"
                  /\ \A j \in 1..(i - 1) : sLog[j].kind \in CascadeKinds => sLog[j].n = 0

\* a request that went through all five strategies and found lamps in the last
C1_Witness ==
    /\ sPc = "done"
    /\ \A s \in 1..5 : EntriesOf(s) # {}
    /\ sLog[Len(sLog)].kind \in CascadeKinds
    /\ sLog[Len(sLog)].n > 0

\* the lamps made of a list of features that all carry an object id
LampsOf(feats) ==
    transformFeaturesToLamps(feats, sReq.fields, [j \in 1..Len(feats) |-> 1])

\* C13: when a per-field query yields at least one feature, it is the last
\* query of the request (no later field is queried, no combined query is
\* issued for that street), the fields before it in schema order were queried
\* just before it for the same street and gave nothing, and the features
\* searchLamps goes on with are exactly the features of that query.
C13_FirstFieldWins ==
    sReq # None =>
        \A i \in DOMAIN sLog :
            (sLog[i].kind = "field" /\ sLog[i].n > 0) =>
                LET e == sLog[i]
                    streetFields == sReq.fields.streetFields
                    k == CHOOSE k \in 1..Len(streetFields) :
                             streetFields[k] = e.fieldsQueried[1]
                IN  /\ i = Len(sLog)
                    /\ sPc = "done"
                    /\ features = e.answer
                    /\ sResult.kind = "result"
                    /\ sResult.lamps = LampsOf(e.answer)
                    /\ i >= k
                    /\ \A m \in 1..(k - 1) :
                          /\ sLog[i - k + m].kind = "field"
                          /\ sLog[i - k + m].n = 0
                          /\ sLog[i - k + m].street = e.street
                          /\ sLog[i - k + m].site = e.site
                          /\ sLog[i - k + m].fieldsQueried = <<streetFields[m]>>
                    /\ \A j \in DOMAIN sLog :
                          ~ /\ sLog[j].kind = "combined"
                            /\ sLog[j].street = e.street
                            /\ sLog[j].site = e.site

\* street fields [ulica, nazov_ulice, street_name]: nothing for ulica, two
\* features for nazov_ulice, which are the result; nothing else was queried
C13_Witness ==
    /\ sPc = "done"
    /\ Len(sLog) = 2
    /\ Len(sReq.fields.streetFields) = 3
    /\ sLog[1].kind = "field" /\ sLog[1].fieldsQueried = <<sReq.fields.streetFields[1]>>
    /\ sLog[1].n = 0
    /\ sLog[2].kind = "field" /\ sLog[2].fieldsQueried = <<sReq.fields.streetFields[2]>>
    /\ sLog[2].n = 2
    /\ features = sLog[2].answer

\* the log entries of de-accented passes
DeAccentedEntries == {i \in DOMAIN sLog : sLog[i].kind \in {"field", "combined"} /\ sLog[i].deAccented}

\* the attribute searches (of the input, of the k-th suggestion) that made a
\* de-accented pass
DeAccentedSites == {sLog[i].site : i \in DeAccentedEntries}

\* the string an attribute search was called with
SiteStreet(site) ==
    IF site[1] = "main" THEN sReq.normalizedStreet ELSE suggestedStreets[site[2]]

\* every de-accented query uses the de-accented form of the string its
\* attribute search was called with, and that form differs from the string
DeAccentedDiffers ==
    \A i \in DeAccentedEntries :
        /\ sLog[i].street = removeDiacritics(SiteStreet(sLog[i].site))
        /\ sLog[i].street # SiteStreet(sLog[i].site)

SuggestionsTried == {sLog[i].site[2] : i \in {j \in DOMAIN sLog : sLog[j].site[1] = "suggestion"}}

EntriesOfSuggestion(k) == {i \in DOMAIN sLog : sLog[i].site = <<"suggestion", k>>}

NoHit == \A i \in DOMAIN sLog : sLog[i].kind \in CascadeKinds => sLog[i].n = 0

Min(a, b) == IF a < b THEN a ELSE b

\* C15: the fallback re-runs the attribute strategies for the suggestions in
\* their order, for the first two at most; the search of a suggestion starts
\* with that suggestion's string; a later suggestion is tried only after the
\* earlier one gave nothing; a suggestion that yields features ends the
\* request and its features are the features returned.
C15_SuggestionRetries ==
    sReq # None =>
        /\ \A k \in SuggestionsTried :
              /\ k \in 1..Min(suggestionsTried, Len(suggestedStreets))
              /\ \A k2 \in 1..(k - 1) :
                    /\ k2 \in SuggestionsTried
                    /\ \A i \in EntriesOfSuggestion(k2), j \in EntriesOfSuggestion(k) :
                          i < j /\ sLog[i].n = 0
              /\ LET first == CHOOSE i \in EntriesOfSuggestion(k) :
                                  \A j \in EntriesOfSuggestion(k) : i <= j
                 IN  /\ sLog[first].street = suggestedStreets[k]
                     /\ sLog[first].kind = "field"
                     /\ sLog[first].fieldsQueried = <<sReq.fields.streetFields[1]>>
        /\ \A i \in DOMAIN sLog :
              (sLog[i].site[1] = "suggestion" /\ sLog[i].n > 0) =>
                  /\ i = Len(sLog)
                  /\ sPc = "done"
                  /\ features = sLog[i].answer
                  /\ sResult.lamps = LampsOf(sLog[i].answer)
        /\ (sPc = "done" /\ NoHit) =>
              SuggestionsTried = 1..Min(suggestionsTried, Len(suggestedStreets))

\* three names were suggested; the first gave nothing, the second gave
\* features, which are the result; the third was never tried
C15_Witness ==
    /\ sPc = "done"
    /\ Len(suggestedStreets) = 3
    /\ SuggestionsTried = {1, 2}
    /\ sLog[Len(sLog)].site = <<"suggestion", 2>>
    /\ sLog[Len(sLog)].n > 0
    /\ features = sLog[Len(sLog)].answer

C17_AllSuggestionsTried ==
    (sPc = "done" /\ "suggestedStreets" \in DOMAIN sResult) =>
        \A k \in 1..Len(sResult.suggestedStreets) :
            \E i \in EntriesOfSuggestion(k) : sLog[i].street = sResult.suggestedStreets[k]

\* C17 amended: the returned suggestion list is the whole list the matcher
\* proposed, in its order; the names used to re-run the attribute strategies
\* are a prefix of it, of length at most 2, ending with the first name that
\* yielded features.
C17_TriedIsPrefix ==
    (sPc = "done" /\ suggestedStreets # <<>>) =>
        /\ sResult.suggestedStreets = suggestedStreets
        /\ \E t \in 1..Min(suggestionsTried, Len(suggestedStreets)) :
              /\ SuggestionsTried = 1..t
              /\ \A k \in 1..t :
                    \E i \in EntriesOfSuggestion(k) : sLog[i].street = suggestedStreets[k]
              /\ t < Min(suggestionsTried, Len(suggestedStreets)) => ~NoHit

\* two names are returned although the first one already gave the lamps: the
\* second was never tried
C17_Witness ==
    /\ sPc = "done"
    /\ "suggestedStreets" \in DOMAIN sResult
    /\ Len(sResult.suggestedStreets) >= 2
    /\ SuggestionsTried = {1}
    /\ sResult.lamps # <<>>

\* the entries of a list are pairwise different
Distinct(seq) == Cardinality({seq[i] : i \in DOMAIN seq}) = Len(seq)

\* C18: every name getAIStreetMatches returns is, as it stands, an element of
\* the sampled street-name list it was given (an answer line that is not in
\* the sample is dropped) and it returns at most 3 names; the sample that
\* getSampleStreetNames builds holds at most 200 names, all different.
C18_SuggestionsFromSample ==
    /\ [](\A i \in DOMAIN sLog :
            sLog[i].kind = "ai" =>
                /\ Len(sLog[i].matches) <= 3
                /\ \A m \in DOMAIN sLog[i].matches :
                      /\ Contains(streetCache.sample_streets.streets, sLog[i].matches[m])
                      /\ \E l \in DOMAIN sLog[i].content :
                            Trim(sLog[i].content[l]) = sLog[i].matches[m])
    /\ [](sPc = "ai" => sCtx.existingStreets = streetCache.sample_streets.streets)
    /\ [][streetCache' # streetCache =>
            /\ Len(streetCache'.sample_streets.streets) <= 200
            /\ Distinct(streetCache'.sample_streets.streets)]_vars

\* the sample was cut to 200 names; the completion named a street that is not
\* in it and four that are: the unknown one was dropped and three returned
C18_Witness ==
    /\ streetCache.sample_streets # Undefined
    /\ Len(streetCache.sample_streets.streets) = 200
    /\ \E i \in DOMAIN sLog :
          /\ sLog[i].kind = "ai"
          /\ Len(sLog[i].matches) = 3
          /\ Len(sLog[i].content) = 5
          /\ ~Contains(streetCache.sample_streets.streets, sLog[i].content[1])

\* the matcher found no exact variant and has the sample, and no API key is set
NoKeyNoExact ==
    /\ sPc = "done"
    /\ ~apiKey
    /\ \E i \in DOMAIN sLog : sLog[i].kind = "sample" /\ sLog[i].n > 0
    /\ \A i \in DOMAIN sLog : sLog[i].kind = "exact" => sLog[i].n = 0

\* C19 as stated: without an API key and without an exact variant the
\* suggestion path returns an empty list, so the result carries no suggested
\* names.
C19_NoSuggestionsWithoutKey ==
    NoKeyNoExact => "suggestedStreets" \notin DOMAIN sResult

\* C19 amended: without an API key the completion is never requested and
\* nothing is raised; findBestStreetMatch returns the one-element list holding
\* the normalized input, and the result carries that list.
C19_InputIsTheSuggestion ==
    /\ (sPc = "ai" \/ \E i \in DOMAIN sLog : sLog[i].kind = "ai") => apiKey
    /\ NoKeyNoExact =>
          /\ sResult.kind = "result"
          /\ suggestedStreets = <<normalizeStreet(sReq.normalizedStreet)>>
          /\ sResult.suggestedStreets = suggestedStreets

\* no key, no exact variant, street names sampled: the input came back as the
\* only suggestion and was searched again
C19_Witness ==
    /\ NoKeyNoExact
    /\ sResult.suggestedStreets = <<sReq.normalizedStreet>>
    /\ SuggestionsTried = {1}

\* the entries of positions `indices` of a list, in list order, the first
\* `limit` of them
FirstOf(list, indices, limit) ==
    LET chosen == {i \in indices : Cardinality({j \in indices : j < i}) < limit}
    IN  [k \in 1..Cardinality(chosen) |->
            list[CHOOSE i \in chosen : Cardinality({j \in chosen : j < i}) = k - 1]]

\* C20: findBestMatch returns (a) the one entry whose normalized name equals
\* the normalized input, if there is one (the first in the list); (b) if there
\* is none, the entries whose normalized name contains the input or is
\* contained in it, in list order, five at most; (c) if there are none either,
\* the entries within the edit-distance threshold, in list order, three at
\* most.  A later stage contributes nothing when an earlier one is not empty.
C20_StagesInOrder ==
    gQuery # None =>
        LET all == gQuery.allStreets
            input == normalizeStreetName(gQuery.userInput)
            exact == {i \in DOMAIN all : all[i].normalized = input}
            partial == {i \in DOMAIN all :
                            \/ Includes(all[i].normalized, input)
                            \/ Includes(input, all[i].normalized)}
            fuzzy == {i \in DOMAIN all :
                          levenshteinDistance(all[i].normalized, input)
                              <= FuzzyThreshold(input)}
        IN  /\ exact # {} => gOut.matches = FirstOf(all, exact, 1)
            /\ (exact = {} /\ partial # {}) => gOut.matches = FirstOf(all, partial, 5)
            /\ (exact = {} /\ partial = {}) => gOut.matches = FirstOf(all, fuzzy, 3)

\* the list holds Dubová before Dub and five more names that contain "dub";
\* for the input " dUB " exactly the entry Dub is returned
C20_Witness ==
    /\ gQuery # None
    /\ gQuery.allStreets = GazDubList
    /\ gQuery.userInput = <<" ", "d", "U", "B", " ">>
    /\ gOut.matches = <<StreetEntry(<<"D", "u", "b">>)>>

\* distances of the returned matches to the normalized input, in result order
MatchDistances ==
    LET input == normalizeStreetName(gQuery.userInput)
    IN  [k \in DOMAIN gOut.matches |->
            levenshteinDistance(gOut.matches[k].normalized, input)]

\* the call found no exact and no substring match
FuzzyStage ==
    /\ gQuery # None
    /\ LET input == normalizeStreetName(gQuery.userInput)
       IN  \A i \in DOMAIN gQuery.allStreets :
              ~IsExact(gQuery.allStreets[i], input)
                  /\ ~IsPartial(gQuery.allStreets[i], input)

C23_NormalizeIdempotent ==
    nName # None => nOut.twice = nOut.once

\* " Ž\tä": trimmed, lower-cased, the tab turned into a space, both accents
\* folded; a second pass returns the same "z a"
C23_Witness ==
    /\ nName = [name |-> <<" ", "Z_caron", "\t", "a_diaeresis">>]
    /\ nOut.once = <<"z", " ", "a">>
    /\ nOut.twice = <<"z", " ", "a">>

(***************************************************************************)
(* Properties of the lamp records                                          *)
(***************************************************************************)
IsPointGeometry(geometry) ==
    /\ geometry # Undefined
    /\ geometry # Null
    /\ "x" \in DOMAIN geometry
    /\ "y" \in DOMAIN geometry

IsPolygonGeometry(geometry) ==
    /\ geometry # Undefined
    /\ geometry # Null
    /\ ~IsPointGeometry(geometry)
    /\ "rings" \in DOMAIN geometry
    /\ Len(geometry.rings) > 0
    /\ Len(geometry.rings[1]) > 0

\* the vertices' mean as a pair of quotients
RingMean(ring) ==
    <<Ratio(SumCoord(ring, 1), Len(ring)), Ratio(SumCoord(ring, 2), Len(ring))>>

\* C29: the lamps are made of the features with a resolvable geometry, in the
\* features' order and one lamp per such feature; a point feature gives its
\* own (x, y), a polygon feature the mean of the vertices of its first ring;
\* no lamp has null coordinates and the lamps never outnumber the features.
C29_LampsHaveCoordinates ==
    tFeatures # None =>
        LET feats == tFeatures.features
            lamps == tLamps.lamps
            resolvable == {i \in DOMAIN feats :
                              \/ IsPointGeometry(feats[i].geometry)
                              \/ IsPolygonGeometry(feats[i].geometry)}
            kept == AtIndices(feats, resolvable)
        IN  /\ Len(lamps) = Len(kept)
            /\ Len(lamps) <= Len(feats)
            /\ \A k \in DOMAIN lamps :
                  /\ lamps[k].coords # Null
                  /\ lamps[k].attributes = kept[k].attributes
                  /\ IsPointGeometry(kept[k].geometry) =>
                        lamps[k].coords = <<Ratio(kept[k].geometry.x, 1),
                                            Ratio(kept[k].geometry.y, 1)>>
                  /\ IsPolygonGeometry(kept[k].geometry) =>
                        lamps[k].coords = RingMean(kept[k].geometry.rings[1])

\* a feature without geometry followed by the polygon: one lamp, at the mean
\* (8/4, 3/4) of the four vertices of the first ring
C29_Witness ==
    /\ tFeatures # None
    /\ tFeatures.features = <<FeatNoGeometry, FeatPolygon>>
    /\ Len(tLamps.lamps) = 1
    /\ tLamps.lamps[1].coords = <<Ratio(8, 4), Ratio(3, 4)>>

\* a value that is neither null nor absent nor the empty string
HasValue(value) == value # Undefined /\ value # Null /\ value # Str(<<>>)

\* the value of an identifier field: under its name, else in lower case, else
\* in upper case
ValueUnder(attributes, field) ==
    IF HasValue(Attr(attributes, field)) THEN Attr(attributes, field)
    ELSE IF HasValue(Attr(attributes, ToLowerCase(field)))
         THEN Attr(attributes, ToLowerCase(field))
         ELSE IF HasValue(Attr(attributes, ToUpperCase(field)))
              THEN Attr(attributes, ToUpperCase(field))
              ELSE Undefined

\* C35: a lamp's lampNumber is the string form of the value of the first
\* field, in lampIdFields order, that has a non-null, non-empty value in the
\* attributes (looked up under its name, in lower case and in upper case); an
\* empty value is passed over for the next identifier field; lampNumber is
\* null when no identifier field has a value, and never the empty string.
C35_LampNumberFirstValue ==
    tFeatures # None =>
        \A k \in DOMAIN tLamps.lamps :
            LET lamp == tLamps.lamps[k]
                ids == tFeatures.fields.lampIdFields
                valued == {i \in DOMAIN ids : ValueUnder(lamp.attributes, ids[i]) # Undefined}
                first == CHOOSE i \in valued : \A j \in valued : i <= j
            IN  /\ lamp.lampNumber # Str(<<>>)
                /\ lamp.lampNumber =
                      IF valued = {} THEN Null
                      ELSE StringOf(ValueUnder(lamp.attributes, ids[first]))

\* C30: two requests that transform the same features under the same schema
\* get lamps with equal id, lampNumber, coords and attributes.
C30_TransformDeterministic ==
    tFeatures # None => tLampsAgain = tLamps

(***************************************************************************)
(* Properties of the incident report                                       *)
(***************************************************************************)
\* a report was returned
Reported == pPc = "done" /\ "detectedLamps" \in DOMAIN pReport

\* the report's candidates come from geocoding
GeocodedPath == Reported /\ Len(candidates) > 0

\* the report's candidates are the placeholder ones
DegradedPath == Reported /\ Len(candidates) = 0

\* C24 as stated: the candidate list of a report never has more than 3
\* candidates, on the geocoded and on the degraded path.
C24_AtMostThreeCandidates ==
    Reported => Len(pReport.detectedLamps) <= candidateLimit

\* C24: the candidate list has at most 3 candidates on the geocoded path and at
\* most 5, the first lamps of the street, on the degraded path.
C24_CandidateCaps ==
    /\ GeocodedPath => Len(pReport.detectedLamps) <= candidateLimit
    /\ DegradedPath =>
          /\ Len(pReport.detectedLamps) <= degradedLimit
          /\ Len(pReport.detectedLamps) <= Len(streetLamps)
          /\ \A k \in DOMAIN pReport.detectedLamps :
                pReport.detectedLamps[k].lampId = streetLamps[k].id

\* two components were geocoded, more than 3 lamps lie within the radius and 3
\* candidates are reported
C24_Witness ==
    /\ GeocodedPath
    /\ pComponent = 2
    /\ Cardinality({candidates[k].lampId : k \in DOMAIN candidates}) > candidateLimit
    /\ Len(pReport.detectedLamps) = candidateLimit

\* the confidences geocoding produced for a lamp
ConfidencesOf(lampId) ==
    {candidates[k].confidence : k \in {j \in DOMAIN candidates : candidates[j].lampId = lampId}}

\* C25: a lamp that several address components produced appears once in the
\* candidate list, with the greatest of its confidences and the smallest of
\* its distances.
C25_DedupeKeepsBest ==
    GeocodedPath =>
        LET found == pReport.detectedLamps
        IN  /\ \A i, j \in DOMAIN found : found[i].lampId = found[j].lampId => i = j
            /\ \A i \in DOMAIN found :
                  /\ \A c \in ConfidencesOf(found[i].lampId) : c <= found[i].confidence
                  /\ \A k \in DOMAIN candidates :
                        candidates[k].lampId = found[i].lampId
                            => found[i].distance <= candidates[k].distance

\* C26: every candidate's confidence lies in [0, 1]; on the geocoded path the
\* lamp is within the 50 m radius and the confidence is
\* clamp(1 - distance/100, 0.1, 0.9); on the degraded path the confidence is
\* max(0.1, 0.4 - 0.05 * index), it does not increase with the index, and the
\* distance is the unknown-distance sentinel 999.
C26_ConfidenceRange ==
    Reported =>
        LET found == pReport.detectedLamps
            Clamp(x, lo, hi) == IF x < lo THEN lo ELSE IF x > hi THEN hi ELSE x
        IN  /\ \A k \in DOMAIN found :
                  found[k].confidence >= 0 /\ found[k].confidence <= ConfidenceOne
            /\ GeocodedPath =>
                  \A k \in DOMAIN found :
                      /\ found[k].distance <= geocodeRadius
                      /\ 100 * found[k].confidence =
                            Clamp(100 * ConfidenceOne - found[k].distance * ConfidenceOne,
                                  10 * ConfidenceOne, 90 * ConfidenceOne)
            /\ DegradedPath =>
                  /\ \A k \in DOMAIN found :
                        /\ found[k].distance = unknownDistance
                        /\ 100 * found[k].confidence =
                              Clamp(40 * ConfidenceOne - 5 * (k - 1) * ConfidenceOne,
                                    10 * ConfidenceOne, 100 * ConfidenceOne)
                  /\ \A k \in 1..(Len(found) - 1) :
                        found[k + 1].confidence <= found[k].confidence

\* a lamp at 0 m is reported with confidence 0.9, the upper clamp
C26_Witness ==
    /\ GeocodedPath
    /\ \E k \in DOMAIN pReport.detectedLamps :
          /\ pReport.detectedLamps[k].distance = 0
          /\ 10 * pReport.detectedLamps[k].confidence = 9 * ConfidenceOne

\* smallest distance among the reported candidates
ClosestDistance(found) ==
    CHOOSE d \in {found[k].distance : k \in DOMAIN found} :
        \A k \in DOMAIN found : d <= found[k].distance

\* min(0.95, mean + bonus) of a non-empty candidate list, times its length
OverallTimesLength(found, bonus) ==
    LET total == SumConfidence(found) + Len(found) * bonus
        ceiling == Len(found) * Hundredths(95)
    IN  IF total < ceiling THEN total ELSE ceiling

\* C27 as stated: the bonus of 0.1 is given exactly when there are at least 2
\* candidates and the closest is at most 25 m away.
C27_BonusWithin25Inclusive ==
    (Reported /\ Len(pReport.detectedLamps) > 0) =>
        LET found == pReport.detectedLamps
            bonus == IF Len(found) >= 2 /\ ClosestDistance(found) <= proximityMetres
                     THEN Tenths(1) ELSE 0
        IN  Len(found) * pReport.confidence = OverallTimesLength(found, bonus)

\* C27: for a non-empty candidate list the report confidence is
\* min(0.95, mean candidate confidence + bonus), the bonus being 0.1 exactly
\* when there are at least 2 candidates and the closest is less than 25 m
\* away, and 0 otherwise; it never exceeds 0.95.
C27_BonusBelow25 ==
    (Reported /\ Len(pReport.detectedLamps) > 0) =>
        LET found == pReport.detectedLamps
            bonus == IF Len(found) >= 2 /\ ClosestDistance(found) < proximityMetres
                     THEN Tenths(1) ELSE 0
        IN  /\ Len(found) * pReport.confidence = OverallTimesLength(found, bonus)
            /\ pReport.confidence <= Hundredths(95)

\* lamps at 25 m and 40 m: confidences 0.75 and 0.6, no bonus, report 0.675
C27_Witness ==
    /\ Reported
    /\ Len(pReport.detectedLamps) = 2
    /\ pReport.detectedLamps[1].distance = proximityMetres
    /\ 1000 * pReport.confidence = 675 * ConfidenceOne

\* C28: whatever the interpreter and the geocoder do, processLampReport
\* returns a report and raises nothing.
C28_NoFailurePropagates ==
    pPc = "done" => "raised" \notin DOMAIN pReport

\* the process holds a gazetteer snapshot younger than 24 hours
SnapshotIsFresh == Len(streetsCache) > 0 /\ (gClock - cacheTimestamp) < cacheTTL

\* C22: while a snapshot younger than 24 hours exists no getAllStreets call
\* contacts the source; a call whose fetch fails returns the stale snapshot if
\* there is one and the fallback list otherwise; no call raises.
C22_SnapshotServed ==
    /\ [][\A c \in LookupSlots :
            /\ (gReqs[c].pc # "fetching" /\ gReqs'[c].pc = "fetching")
                   => ~SnapshotIsFresh
            /\ (gReqs[c].pc = "fetching" /\ gReqs'[c].pc # "fetching"
                    /\ gReturn'.failed)
                   => gReturn'.streets = IF Len(streetsCache) > 0 THEN streetsCache
                                         ELSE getFallbackStreets]_vars
    /\ [](gReturn # None => ~gReturn.raised)

\* a field literally named objectid or oid, in any case
NamedObjectId(name) == ToLowerCase(name) \in {NameObjectid, ToLowerCase(NameOID)}

\* C33: in every schema discoverFields returns, a name that is objectid or oid
\* (in any case) is in lampIdFields only as the single-element fallback
\* [OBJECTID].
C33_ObjectIdExcluded ==
    lastReturn # None =>
        LET ids == lastReturn.result.lampIdFields
        IN  (\E k \in DOMAIN ids : NamedObjectId(ids[k])) => ids = <<NameOBJECTID>>

\* a string-typed field whose name or alias contains a street pattern
QualifiesAsStreet(field) ==
    /\ field.type = "esriFieldTypeString"
    /\ MatchesPattern(field, streetFieldPatterns)

\* the place in the pattern list of the first pattern a field matches
FirstPattern(field) ==
    CHOOSE i \in DOMAIN streetFieldPatterns :
        /\ MatchesPattern(field, <<streetFieldPatterns[i]>>)
        /\ \A j \in 1..(i - 1) : ~MatchesPattern(field, <<streetFieldPatterns[j]>>)

\* C34: the street fields discovered in a field list with a qualifying field
\* are exactly its string-typed fields whose name or alias contains a pattern,
\* one entry per such field, ordered by the pattern list: a field whose first
\* matching pattern comes earlier in the list precedes one whose first
\* matching pattern comes later, whatever the metadata order.
C34_StreetFieldsInPatternOrder ==
    fFields # None =>
        LET fields == fFields.fields
            qualifying == {k \in DOMAIN fields : QualifiesAsStreet(fields[k])}
            out == fSchema.streetFields
            FieldNamed(name) == fields[CHOOSE k \in qualifying : fields[k].name = name]
        IN  qualifying # {} =>
                /\ Len(out) = Cardinality(qualifying)
                /\ {out[i] : i \in DOMAIN out} = {fields[k].name : k \in qualifying}
                /\ \A i, j \in DOMAIN out :
                      i < j => FirstPattern(FieldNamed(out[i])) <= FirstPattern(FieldNamed(out[j]))

\* C31: Every change of a process-wide cache is one complete swap made by a
\* refresh in flight: the gazetteer list and its timestamp change together, to
\* the list parsed from one answer and the time that refresh started; a cached
\* schema changes to a schema with both field lists, all fields and the
\* timestamp of one refresh. No state in between is ever visible to a request
\* suspended at the time or started later.
C31_CompleteEntries ==
    [][/\ (streetsCache' # streetsCache \/ cacheTimestamp' # cacheTimestamp) =>
            \E c \in LookupSlots :
                /\ gReqs[c].pc = "fetching"
                /\ ~gReqs[c].fresh
                /\ cacheTimestamp' = gReqs[c].now
                /\ \E data \in DOMAIN ParsedAnswers : streetsCache' = ParsedAnswers[data]
       /\ \A i \in Instances :
            cachedDiscovery'[i] # cachedDiscovery[i] =>
                \E c \in Calls, fields \in MetadataAnswers :
                    /\ InstanceOf(c) = i
                    /\ dCalls[c].pc = "fetching"
                    /\ cachedDiscovery'[i] = DiscoveredSchema(fields, dCalls[c].now)
                    /\ Len(cachedDiscovery'[i].streetFields) > 0
                    /\ Len(cachedDiscovery'[i].lampIdFields) > 0]_vars

\* a refresh that started after the clock advanced has swapped list and
\* timestamp while another request of the long-lived service is suspended
C31_Witness ==
    /\ Len(streetsCache) > 0
    /\ cacheTimestamp > 0
    /\ \E c \in LookupSlots : gReqs[c].pc = "fetching" /\ ~gReqs[c].fresh

\* C2: a request during which a remote query of the cascade failed with a bad
\* request, or with a transient error after the retries, ends in a failure for
\* the caller and not in a result.
C2_FailureSurfaces ==
    (sPc = "done" /\ sSaw # {}) => sResult.kind = "error"

\* the remote calls of the request logged so far, by kind
EntriesOfKind(kinds) == {i \in DOMAIN sLog : sLog[i].kind \in kinds}

\* the attribute queries one tryStreetVariants pass can issue with F street
\* fields: one per field and, with more than one field, the combined one
QueriesPerPass(F) == F + (IF F > 1 THEN 1 ELSE 0)

\* C40: a request whose remote calls all return or fail ends, and until then it
\* has issued at most 1 spatial paginated query, at most 3 * 2 * (F + (1 if F >
\* 1 else 0)) attribute paginated queries for a schema with F street fields,
\* and at most 6 single-page matcher queries: 5 name variants and 1 sample.
C40_TerminatesWithinBounds ==
    /\ [](sReq # None =>
            /\ Cardinality(EntriesOfKind({"spatial"})) <= 1
            /\ Cardinality(EntriesOfKind({"field", "combined"}))
                  <= 3 * 2 * QueriesPerPass(Len(sReq.fields.streetFields))
            /\ Cardinality(EntriesOfKind({"exact"})) <= 5
            /\ Cardinality(EntriesOfKind({"sample"})) <= 1)
    /\ (sPc \notin {"idle", "done"}) ~> (sPc = "done")

\* a request with coordinates and three street fields that issued the spatial
\* query, twenty attribute queries (the input and two suggestions, two of the
\* three with a de-accented repeat), five variant queries and the sample query
C40_Witness ==
    /\ sPc = "done"
    /\ Len(sReq.fields.streetFields) = 3
    /\ Cardinality(EntriesOfKind({"spatial"})) = 1
    /\ Cardinality(EntriesOfKind({"field", "combined"})) = 20
    /\ Cardinality(EntriesOfKind({"exact"})) = 5
    /\ Cardinality(EntriesOfKind({"sample"})) = 1

\* C39: once getSampleStreetNames has stored a sample, a later call on the
\* same StreetMatcherService within 24 hours is served from it: no request
\* waits for the remote sample query while a sample is stored.
C39_SampleServedFromCache ==
    ~(sPc = "sample" /\ streetCache.sample_streets # Undefined)

\* C36: a request that returns an empty lamp list went through the
\* gazetteer-assisted fallback (strategy 5) before it returned.
C36_EmptyOnlyAfterFallback ==
    (sPc = "done" /\ sResult.kind = "result" /\ sResult.lamps = <<>>) =>
        EntriesOf(5) # {}

\* C3: when every cascade query of a request gave zero features the call returns
\* a result whose lamp list is empty, carrying the suggestion list exactly when
\* that list is not empty; it does not raise.
C3_EmptyIsNormal ==
    (sPc = "done" /\ \A i \in DOMAIN sLog : sLog[i].kind \in CascadeKinds => sLog[i].n = 0) =>
        /\ sResult.kind = "result"
        /\ sResult.lamps = <<>>
        /\ ("suggestedStreets" \in DOMAIN sResult) <=> (Len(suggestedStreets) > 0)
        /\ Len(suggestedStreets) > 0 => sResult.suggestedStreets = suggestedStreets

\* a request whose every strategy, the retry with two suggestions included,
\* gave nothing
C3_Witness ==
    /\ sPc = "done"
    /\ \A i \in DOMAIN sLog : sLog[i].kind \in CascadeKinds => sLog[i].n = 0
    /\ \E i \in DOMAIN sLog : sLog[i].strategy = 5 /\ sLog[i].kind = "ai"
    /\ Len(suggestedStreets) >= 2
    /\ sResult.kind = "result"
    /\ sResult.lamps = <<>>
    /\ sResult.suggestedStreets = suggestedStreets

(***************************************************************************)
(* Properties of discoverFields                                            *)
(***************************************************************************)
\* a call in flight settles in this step
Settles(c) == dCalls[c].pc = "fetching" /\ dCalls'[c].pc = "idle"

\* C37: a discoverFields call whose metadata fetch fails changes neither the
\* content nor the timestamp of any cached schema; it returns the cached schema
\* of its instance if there is one and otherwise the hardcoded schema, which no
\* instance ever holds in its cache; and a call is served without a fetch only
\* from a cached schema, so after a failure without cache the next call
\* fetches again.
C37_FailureLeavesCache ==
    /\ [][\A c \in Calls :
            (Settles(c) /\ lastReturn'.failed) =>
                /\ cachedDiscovery' = cachedDiscovery
                /\ lastReturn'.result =
                      IF cachedDiscovery[InstanceOf(c)] # Null
                      THEN cachedDiscovery[InstanceOf(c)]
                      ELSE DefaultSchema(dCalls[c].now)]_vars
    /\ [][(lastReturn' # lastReturn /\ ~lastReturn'.fetched) =>
            \E i \in Instances :
                cachedDiscovery[i] # Null /\ lastReturn'.result = cachedDiscovery[i]]_vars
    /\ [](\A i \in Instances :
            cachedDiscovery[i] # Null =>
                cachedDiscovery[i].streetFields # DefaultSchema(0).streetFields)

\* a call of the router's instance failed without a cached schema and got the
\* hardcoded one; the cache is still empty and a later call is fetching again
C37_Witness ==
    /\ lastReturn # None
    /\ lastReturn.failed
    /\ lastReturn.result.streetFields = DefaultSchema(0).streetFields
    /\ cachedDiscovery["router"] = Null
    /\ \E c \in 1..NumRequests :
          /\ dCalls[c].pc = "fetching"
          /\ ~dCalls[c].forceRefresh
          /\ dCalls[c].now > lastReturn.result.timestamp

\* C38: the timestamp of the schema an instance caches never decreases, in
\* whatever order the fetches of concurrent calls settle.
C38_TimestampNeverDecreases ==
    [][\A i \in Instances :
          (cachedDiscovery[i] # Null /\ cachedDiscovery'[i] # Null) =>
              cachedDiscovery'[i].timestamp >= cachedDiscovery[i].timestamp]_vars

\* C9: discoverFields never raises; when the metadata fetch fails, it returns
\* the schema cached on its instance if there is one (of whatever age) and
\* otherwise the hardcoded schema stamped with the call's own time; so
\* startServer goes on to listen even when its discovery failed.
C9_DiscoverNeverRaises ==
    /\ [](lastReturn # None => (~lastReturn.raised /\ lastReturn.result.kind = "schema"))
    /\ [](serverState # "exited")
    /\ [][\A c \in Calls :
            (Settles(c) /\ lastReturn'.failed) =>
                /\ lastReturn'.result =
                     IF cachedDiscovery[InstanceOf(c)] # Null
                     THEN cachedDiscovery[InstanceOf(c)]
                     ELSE [kind |-> "schema",
                           streetFields |-> << <<"u", "l", "i", "c", "a">>,
                                               <<"n", "a", "z", "o", "v", "_", "u", "l", "i", "c", "e">>,
                                               <<"s", "t", "r", "e", "e", "t", "_", "n", "a", "m", "e">> >>,
                           lampIdFields |-> << <<"c", "i", "s", "l", "o", "_", "s", "t", "l", "p">>,
                                               <<"l", "a", "m", "p", "_", "i", "d">>,
                                               <<"o", "b", "j", "e", "c", "t", "i", "d">> >>,
                           allFields |-> <<>>,
                           timestamp |-> dCalls[c].now]
                /\ (c = 0 => serverState' = "listening")]_vars

\* the startup discovery failed, the server listens all the same, and a later
\* failed refresh on the router's instance returned its expired cached schema
C9_Witness ==
    /\ serverState = "listening"
    /\ cachedDiscovery["server"] = Null
    /\ lastReturn # None
    /\ lastReturn.failed
    /\ cachedDiscovery["router"] # Null
    /\ lastReturn.result = cachedDiscovery["router"]
    /\ clock - lastReturn.result.timestamp >= 600000

\* both identify functions give a non-empty list of names for every field list
IdentifyNeverEmpty ==
    \A fields \in MetaLists :
        /\ Len(identifyStreetFields(fields)) > 0
        /\ Len(identifyLampIdFields(fields)) > 0

NonEmptyLists(schema) ==
    /\ Len(schema.streetFields) > 0
    /\ Len(schema.lampIdFields) > 0

\* C11: every schema discoverFields returns, and every schema an instance
\* caches, has a non-empty streetFields and a non-empty lampIdFields list:
\* freshly discovered (whatever the metadata field list, the empty one
\* included), served from the cache, stale, or the hardcoded one.
C11_FieldListsNonEmpty ==
    /\ IdentifyNeverEmpty
    /\ lastReturn # None => NonEmptyLists(lastReturn.result)
    /\ \A i \in Instances : cachedDiscovery[i] # Null => NonEmptyLists(cachedDiscovery[i])

\* a fresh discovery over an empty metadata field list returned the fallback
\* names, and that schema is now the cached one
C11_Witness ==
    /\ lastReturn # None
    /\ lastReturn.fetched
    /\ ~lastReturn.failed
    /\ lastReturn.result.allFields = <<>>
    /\ lastReturn.result.streetFields = << <<"u", "l", "i", "c", "a">> >>
    /\ lastReturn.result.lampIdFields = << <<"O", "B", "J", "E", "C", "T", "I", "D">> >>
    /\ cachedDiscovery["router"] = lastReturn.result

\* C12: once the startup discovery has succeeded, a request's discoverFields()
\* call (forceRefresh = false) that starts less than 600 s after it is served
\* from the cache: no such call is ever waiting for a metadata fetch.
C12_WarmedAtStartup ==
    \A c \in 1..NumRequests :
        ~ /\ dCalls[c].pc = "fetching"
          /\ ~dCalls[c].forceRefresh
          /\ cachedDiscovery["server"] # Null
          /\ dCalls[c].now - cachedDiscovery["server"].timestamp
                < fieldDiscoveryTtlSeconds * 1000

\* C10: a call with forceRefresh = false starts a metadata fetch only when its
\* instance holds no schema younger than 600 s; a call that returns without
\* fetching returns exactly the cached schema, which is younger than 600 s,
\* and leaves the cache alone; a call with forceRefresh = true never returns
\* without having fetched.
C10_CacheWindow ==
    /\ [](lastReturn # None => (lastReturn.forceRefresh => lastReturn.fetched))
    /\ [][\A c \in Calls :
            (dCalls[c].pc = "idle" /\ dCalls'[c].pc = "fetching"
                /\ ~dCalls'[c].forceRefresh) =>
                \/ cachedDiscovery[InstanceOf(c)] = Null
                \/ clock - cachedDiscovery[InstanceOf(c)].timestamp >= 600 * 1000]_vars
    /\ [][(lastReturn' # lastReturn /\ ~lastReturn'.fetched) =>
            /\ cachedDiscovery["router"] # Null
            /\ lastReturn'.result = cachedDiscovery["router"]
            /\ clock - cachedDiscovery["router"].timestamp < 600 * 1000
            /\ UNCHANGED <<cachedDiscovery, dCalls>>]_vars

\* a call without forceRefresh was served from a cache one ms short of the TTL
C10_Witness ==
    /\ lastReturn # None
    /\ ~lastReturn.fetched
    /\ ~lastReturn.forceRefresh
    /\ lastReturn.result = cachedDiscovery["router"]
    /\ clock - lastReturn.result.timestamp = 599999

(***************************************************************************)
(* Specifications                                                          *)
(***************************************************************************)
Init ==
    /\ RetryStart /\ PageInit /\ DiscInit /\ SearchInit /\ GazInit /\ StreetsInit
    /\ ReportInit /\ TransformInit /\ FieldsInit

RetrySpec == Init /\ [][RetryNext]_vars

\* every awaited page fetch eventually settles
PageSpec == Init /\ [][PageNext]_vars /\ WF_vars(QueryAllFetch)

DiscSpec == Init /\ [][DiscNext]_vars

SearchSpec == Init /\ [][SearchNext]_vars

\* every remote call a request awaits returns or fails
SearchLiveSpec == Init /\ [][SearchNext]_vars /\ WF_vars(SearchSettles)

GazSpec == Init /\ [][GazNext]_vars

StreetsSpec == Init /\ [][StreetsNext]_vars

ReportSpec == Init /\ [][ReportNext]_vars

TransformSpec == Init /\ [][TransformNext]_vars

CachesSpec == Init /\ [][CachesNext]_vars

FieldsSpec == Init /\ [][FieldsNext]_vars

====
